---- MODULE Spec2Model ----
(***************************************************************************)
(* Random-search tuning loop of analysis/auto_tune.py (run_auto_tune) with *)
(* the files it reads and writes: the runtime parameter file, the metrics  *)
(* artifact of the evaluator, and the two tuning outputs.                  *)
(*                                                                         *)
(* Numbers are integers: metric values are tenths (0..10 for a rate in     *)
(* [0,1]), objective scores are hundredths, parameter values are           *)
(* thousandths.  None is <<>> and Some(v) is <<v>>.  An underscore-joined  *)
(* name such as "all_hostile_FUSION" is the sequence of its parts,         *)
(* <<"all", "hostile", "FUSION">>, so that str.split('_') and '_'.join     *)
(* are SubSeq and \o.                                                      *)
(***************************************************************************)
EXTENDS Integers, Sequences, FiniteSets, TLC

VARIABLES
    pc,            \* position in run_auto_tune
    trials,        \* argument `trials`
    seed,          \* argument `seed` (or the one drawn at line 267)
    rng,           \* state of the shared random.Random(seed)
    trial,         \* loop variable of `for trial in range(trials)`
    params,        \* local `params` of the current trial (None before the first)
    metrics,       \* local `metrics` of the current trial
    score,         \* local `score` of the current trial (None before it is computed)
    history,       \* local `history`
    best_score,    \* local `best_score` (None is float('-inf'))
    best_params,   \* local `best_params`
    best_metrics,  \* local `best_metrics`
    paramFile,     \* simulator/config/runtime_params.json
    metricsFile,   \* analysis/results/metrics.json
    historyFile,   \* analysis/results/auto_tune_history.json
    bestFile,      \* analysis/results/auto_tune_best_config.json
    raised,        \* the exception that left run_auto_tune, None if none did
    lastEval,      \* how the latest run_evaluation ended, None before the first
    nSampled,      \* calls of sample_params so far
    nEvaluated,    \* calls of run_evaluation so far
    nSucceeded,    \* trials whose evaluation and analysis both delivered
    nSaveCalls,    \* calls of save_history so far
    savedLen,      \* len(history) at the last completed write of the history file
    metricsOfTrial,\* metrics.json was written by the analysis of the trial in progress
    space,         \* the ParamSpace handed to sample_params
    epc,           \* position in the evaluator (eval_classification_report.py)
    events,        \* the events of the log file the evaluator reads
    predictions,   \* the list extract_predictions_from_log returned (None before)
    evalMetrics,   \* the dictionary compute_metrics returned (None before)
    call,          \* the arguments of a function of the evaluator called on its own
    ret,           \* what that call returned (None before it returns)
    roc_pr_data,   \* what compute_roc_pr_data returned for the log file (None before)
    log_files,     \* main: the log files found under --logs-dir, in glob order
    fileIdx,       \* main: the place in log_files of the file the loop is at
    results,       \* main: the dictionary `results`, in insertion order
    rocPrFiles,    \* results/roc_pr_data/: (scenario, mode) -> saved curve data
    backupFile,    \* simulator/config/runtime_params.json.backup
    mpc,           \* position in run_evaluation_mode (run_evaluation.py)
    mode,          \* argument `mode` of run_evaluation_mode
    modeRet,       \* what run_evaluation_mode returned (None before it returns)
    paramBefore,   \* runtime_params.json as it was when run_evaluation_mode was called
    running,       \* C2WebSocketClient.running
    connected,     \* C2WebSocketClient.connected
    ws,            \* C2WebSocketClient.ws: None or the connection it refers to
    conns,         \* the connections to the C2 server that are open
    receiving,     \* the connections whose _receive_loop task has not ended
    rpc,           \* position of the run_with_reconnect task
    spc,           \* position of the stop() call
    closing,       \* the connection stop() is waiting to close (None if none)
    nOpened,       \* connections websockets.connect has opened so far
    openedAtStop,  \* nOpened when stop() was called
    inbox,         \* AirSimBridgeServer: the messages the client has sent, not yet read
    sent,          \* the responses handle_client has sent on the connection
    nRead,         \* the messages handle_client has read from the connection
    hpc,           \* position of handle_client
    connected_clients \* AirSimBridgeServer.connected_clients

\* The variables of the evaluator's main() beyond one log file's predictions
\* and metrics.
dirVars == << log_files, fileIdx, results, rocPrFiles >>
mainVars == << roc_pr_data, dirVars >>

\* The variables of run_evaluation_mode beside runtime_params.json and
\* auto_tune_best_config.json.
modeVars == << backupFile, mpc, mode, modeRet, paramBefore >>

\* The variables of C2WebSocketClient and of the tasks that call it.
clientVars == << running, connected, ws, conns, receiving, rpc, spc, closing,
                nOpened, openedAtStop >>

\* The variables of AirSimBridgeServer and of its one client connection.
serverVars == << inbox, sent, nRead, hpc, connected_clients >>

\* The variables of the programs beside the tuner and the evaluator.
elsewhere == << modeVars, clientVars, serverVars >>

\* The variables no step of run_auto_tune changes.
outsideLoop == << space, epc, events, predictions, evalMetrics, call, ret, mainVars,
                 elsewhere >>

vars == << pc, trials, seed, rng, trial, params, metrics, score, history,
           best_score, best_params, best_metrics, paramFile, metricsFile,
           historyFile, bestFile, raised, lastEval, nSampled, nEvaluated,
           nSucceeded, nSaveCalls, savedLen, metricsOfTrial, outsideLoop >>

None == <<>>
Some(v) == <<v>>
IsNone(o) == o = <<>>
The(o) == o[1]

(***************************************************************************)
(* Bounds of the model.                                                    *)
(***************************************************************************)
MaxTrials == 4      \* Spec: trials ranges over 0..MaxTrials
MaxSeed == 2        \* Spec: seed ranges over 1..MaxSeed
LongTrials == 12    \* SpecLong: trials ranges over 0..LongTrials

(***************************************************************************)
(* Program constants.                                                      *)
(***************************************************************************)
CheckpointEvery == 10    \* `(trial + 1) % 10 == 0`
DrawsPerSample == 17     \* rng.uniform calls in one sample_params

(***************************************************************************)
(* auto_tuning_config.py: the search space and sample_params.              *)
(***************************************************************************)

\* ParamSpace: every range as <<min, max>>, in thousandths.
ParamSpace ==
    [ threat_engage_threshold |-> <<55000, 85000>>,
      threat_abort_threshold |-> <<30000, 50000>>,
      civil_conf_threshold |-> <<500, 900>>,
      pn_nav_constant |-> <<2000, 4500>>,
      pn_max_turn_rate |-> <<2000, 5000>>,
      pn_min_closing_speed |-> <<5000, 15000>>,
      interceptor_turn_rate_multiplier |-> <<800, 1300>>,
      sensor_radar_weight |-> <<400, 700>>,
      sensor_audio_weight |-> <<100, 300>>,
      sensor_eo_weight |-> <<700, 1000>>,
      threat_weight_existence |-> <<100, 200>>,
      threat_weight_classification |-> <<200, 300>>,
      threat_weight_distance |-> <<150, 250>>,
      threat_weight_velocity |-> <<100, 150>>,
      threat_weight_behavior |-> <<50, 100>>,
      threat_weight_armed |-> <<80, 120>>,
      threat_weight_heading |-> <<80, 120>> ]

\* random.Random: a seeded deterministic generator.  The model is a
\* full-period linear congruential generator with 16 states; random() steps
\* the state and returns state/16, a value in [0, 1).
SeedRng(s) == s % 16
StepRng(r) == (5 * r + 3) % 16

RECURSIVE RngAfter(_, _)
RngAfter(r, k) == IF k = 0 THEN r ELSE RngAfter(StepRng(r), k - 1)

\* rng.uniform(min, max) as the k-th draw from generator state r:
\* min + (max - min) * random().
Uniform(r, k, range) == range[1] + ((range[2] - range[1]) * RngAfter(r, k)) \div 16

\* round(x, d): x in thousandths to the nearest multiple of q thousandths.
Round(x, q) == ((x + q \div 2) \div q) * q

WeightNames == << "existence", "classification", "distance", "velocity",
                  "behavior", "armed", "heading" >>

\* The seven raw threat weights, drawn as draws 11..17 from the space sp.
ThreatWeightsRawIn(sp, r) ==
    [ existence |-> Uniform(r, 11, sp.threat_weight_existence),
      classification |-> Uniform(r, 12, sp.threat_weight_classification),
      distance |-> Uniform(r, 13, sp.threat_weight_distance),
      velocity |-> Uniform(r, 14, sp.threat_weight_velocity),
      behavior |-> Uniform(r, 15, sp.threat_weight_behavior),
      armed |-> Uniform(r, 16, sp.threat_weight_armed),
      heading |-> Uniform(r, 17, sp.threat_weight_heading) ]

\* The same for DEFAULT_PARAM_SPACE.
ThreatWeightsRaw(r) == ThreatWeightsRawIn(ParamSpace, r)

RECURSIVE SumWeights(_, _)
SumWeights(w, i) == IF i = 0 THEN 0 ELSE w[WeightNames[i]] + SumWeights(w, i - 1)

\* Mutant of line 100: every normalized weight is rounded to three decimals.
NormalizeWeightsRounded(w) ==
    LET total == SumWeights(w, Len(WeightNames))
    IN  [ k \in DOMAIN w |-> << Round((w[k] * 1000 * 10) \div total, 10) \div 10, 1000 >> ]

\* v / total for every raw weight, kept as the exact fraction <<v, total>>.
NormalizeWeights(w) ==
    LET total == SumWeights(w, Len(WeightNames))
    IN  [ k \in DOMAIN w |-> << w[k], total >> ]

\* sample_params(space, rng): the returned dictionary for the space sp and
\* the generator state r.  No range of sp is examined before it is drawn from.
SampleParamsIn(sp, r) ==
    [ threat_engage_threshold |-> Round(Uniform(r, 1, sp.threat_engage_threshold), 10),
      threat_abort_threshold |-> Round(Uniform(r, 2, sp.threat_abort_threshold), 10),
      civil_conf_threshold |-> Round(Uniform(r, 3, sp.civil_conf_threshold), 1),
      pn_nav_constant |-> Round(Uniform(r, 4, sp.pn_nav_constant), 10),
      pn_max_turn_rate |-> Round(Uniform(r, 5, sp.pn_max_turn_rate), 10),
      pn_min_closing_speed |-> Round(Uniform(r, 6, sp.pn_min_closing_speed), 100),
      interceptor_turn_rate_multiplier |->
          Round(Uniform(r, 7, sp.interceptor_turn_rate_multiplier), 10),
      sensor_radar_weight |-> Round(Uniform(r, 8, sp.sensor_radar_weight), 1),
      sensor_audio_weight |-> Round(Uniform(r, 9, sp.sensor_audio_weight), 1),
      sensor_eo_weight |-> Round(Uniform(r, 10, sp.sensor_eo_weight), 1),
      threat_weights |-> NormalizeWeights(ThreatWeightsRawIn(sp, r)) ]

\* sample_params(DEFAULT_PARAM_SPACE, rng)
SampleParams(r) == SampleParamsIn(ParamSpace, r)

\* The generator state sample_params leaves behind.
RngAfterSample(r) == RngAfter(r, DrawsPerSample)

(***************************************************************************)
(* Metrics: the artifact on disk and the dictionary the loop scores.       *)
(*                                                                         *)
(* A JSON value of the artifact is [isDict, fields]: an object with its    *)
(* fields, or a value that is no object (null, a number, a list).  The     *)
(* artifact is [json, entries]: json is "object" (entries is the ordered   *)
(* list of <<key, value>> pairs), "other" (valid JSON that is no object)   *)
(* or "invalid" (not JSON, e.g. a truncated file).                         *)
(***************************************************************************)
Modes == {"BASELINE", "FUSION"}

key_all_hostile == << <<"all", "hostile">>, "FUSION" >>
key_mixed_civil == << <<"mixed", "civil">>, "FUSION" >>
key_civil_only == << <<"civil", "only">>, "FUSION" >>

JsonObject(f) == [isDict |-> TRUE, fields |-> f]
JsonNull == [isDict |-> FALSE, fields |-> <<>>]

\* dict.get(name, 0.0)
Get(m, name) == IF name \in DOMAIN m.fields THEN m.fields[name] ELSE 0

\* f"{scenario}_{mode}"
KeyStr(key) == key[1] \o << key[2] >>

\* 'all_hostile' in key_str, for a name that is two adjacent parts
Contains(parts, name) ==
    \E i \in 1..(Len(parts) - 1) : parts[i] = name[1] /\ parts[i + 1] = name[2]

\* Lines 233-250: the (scenario, mode) tuple a key string is stored under,
\* None when the entry is dropped.
ParseKey(parts) ==
    IF Len(parts) >= 2
    THEN IF parts[Len(parts)] \in Modes
         THEN Some(<< SubSeq(parts, 1, Len(parts) - 1), parts[Len(parts)] >>)
         ELSE IF Contains(parts, key_all_hostile[1]) THEN Some(key_all_hostile)
         ELSE IF Contains(parts, key_mixed_civil[1]) THEN Some(key_mixed_civil)
         ELSE IF Contains(parts, key_civil_only[1]) THEN Some(key_civil_only)
         ELSE None
    ELSE None

\* result[k] = v on a dictionary
Put(d, k, v) == [ x \in DOMAIN d \cup {k} |-> IF x = k THEN v ELSE d[x] ]

\* Lines 227-252: the loop over metrics_dict.items(), in file order.
RECURSIVE ParseEntries(_, _)
ParseEntries(entries, result) ==
    IF entries = <<>> THEN result
    ELSE LET e == Head(entries)
             k == ParseKey(e[1])
         IN  ParseEntries(Tail(entries),
                          IF IsNone(k) THEN result ELSE Put(result, The(k), e[2]))

\* parse_metrics_from_report(): {} when the file is missing, is not JSON or
\* is JSON without .items().
ParseMetricsFromReport(file) ==
    IF IsNone(file) THEN <<>>
    ELSE IF The(file).json # "object" THEN <<>>
    ELSE ParseEntries(The(file).entries, <<>>)

\* compute_objective_score raises when the value stored under one of the two
\* designated keys has no .get (AttributeError).
ScoreRaises(m) ==
    \E k \in {key_all_hostile, key_mixed_civil} \cap DOMAIN m : ~ m[k].isDict

\* Mutant of lines 75-90: the civil_only scenario is scored as well.
ComputeObjectiveScoreWithCivilOnly(m) ==
    (IF key_all_hostile \in DOMAIN m
     THEN Get(m[key_all_hostile], "HOSTILE_f1") * 10 + Get(m[key_all_hostile], "accuracy") * 3
     ELSE 0)
    +
    (IF key_mixed_civil \in DOMAIN m
     THEN Get(m[key_mixed_civil], "HOSTILE_f1") * 10
          - Get(m[key_mixed_civil], "civil_fp_rate") * 20
     ELSE 0)
    +
    (IF key_civil_only \in DOMAIN m THEN Get(m[key_civil_only], "accuracy") * 3 ELSE 0)

\* compute_objective_score(metrics_dict), in hundredths.
ComputeObjectiveScore(m) ==
    (IF key_all_hostile \in DOMAIN m
     THEN Get(m[key_all_hostile], "HOSTILE_f1") * 10 + Get(m[key_all_hostile], "accuracy") * 3
     ELSE 0)
    +
    (IF key_mixed_civil \in DOMAIN m
     THEN Get(m[key_mixed_civil], "HOSTILE_f1") * 10
          - Get(m[key_mixed_civil], "civil_fp_rate") * 20
     ELSE 0)

(***************************************************************************)
(* save_history: what is written to the two output files.                  *)
(***************************************************************************)

\* Lines 380-386: tuple keys to strings.  The order of the written object is
\* immaterial here, so the serialized dictionary is the set of its pairs.
SerializeMetrics(m) == { << KeyStr(k), m[k] >> : k \in DOMAIN m }

\* Lines 376-388
SerializeEntry(e) ==
    [ trial |-> e.trial, params |-> e.params, score |-> e.score,
      metrics |-> SerializeMetrics(e.metrics) ]

\* Lines 390-395: the content of auto_tune_history.json
HistoryJson(h, bs) ==
    [ total_trials |-> Len(h),
      best_score |-> bs,
      history |-> [ i \in 1..Len(h) |-> SerializeEntry(h[i]) ] ]

\* Lines 409-414: the content of auto_tune_best_config.json
BestJson(bp, bs, bm) ==
    [ best_score |-> bs,
      best_params |-> The(bp),
      best_metrics |-> IF IsNone(bm) THEN None ELSE Some(SerializeMetrics(The(bm))) ]

\* `if best_params:` (a sampled dictionary is never empty)
WritesBestConfig(bp) == ~ IsNone(bp)

(***************************************************************************)
(* Files.  A file is None (absent) or Some([complete, data]); complete is  *)
(* FALSE for a file whose write was cut short.                             *)
(***************************************************************************)
File(d) == Some([complete |-> TRUE, data |-> d])
Truncated(d) == Some([complete |-> FALSE, data |-> d])

(***************************************************************************)
(* Inputs: what the external processes deliver.                            *)
(***************************************************************************)

\* run_evaluation: exit code 0, exit code # 0, TimeoutExpired, other exception
EvalOutcomes == {"ok", "nonzero", "timeout", "error"}

\* The analysis subprocess: "wrote" (exit 0 after writing metrics.json),
\* "nolog" (exit 0 from the early return for an empty log directory, nothing
\* written), exit code # 0, TimeoutExpired, other exception
AnalysisOutcomes == {"wrote", "nolog", "nonzero", "timeout", "error"}

Artifact(entries) == Some([json |-> "object", entries |-> entries])

MetricsHigh ==
    Artifact(<< << KeyStr(key_all_hostile),
                   JsonObject([HOSTILE_f1 |-> 8, accuracy |-> 7]) >>,
                << KeyStr(key_mixed_civil),
                   JsonObject([HOSTILE_f1 |-> 6, civil_fp_rate |-> 1]) >> >>)
MetricsHighToo ==
    Artifact(<< << KeyStr(key_all_hostile),
                   JsonObject([HOSTILE_f1 |-> 6, accuracy |-> 7]) >>,
                << KeyStr(key_mixed_civil),
                   JsonObject([HOSTILE_f1 |-> 8, civil_fp_rate |-> 1]) >> >>)
MetricsMid ==
    Artifact(<< << KeyStr(key_all_hostile),
                   JsonObject([HOSTILE_f1 |-> 5, accuracy |-> 5]) >>,
                << <<"civil", "only", "BASELINE">>,
                   JsonObject([accuracy |-> 9]) >> >>)
MetricsNegative ==
    Artifact(<< << KeyStr(key_mixed_civil),
                   JsonObject([HOSTILE_f1 |-> 0, civil_fp_rate |-> 5]) >> >>)
MetricsNullValue ==
    Artifact(<< << KeyStr(key_all_hostile), JsonNull >> >>)
MetricsNoKnownKey ==
    Artifact(<< << <<"summary">>, JsonObject([accuracy |-> 9]) >> >>)
MetricsInvalid == Some([json |-> "invalid", entries |-> <<>>])

ArtifactsFull ==
    { MetricsHigh, MetricsHighToo, MetricsMid, MetricsNegative,
      MetricsNullValue, MetricsNoKnownKey, MetricsInvalid }
ArtifactsThin == { MetricsHigh, MetricsNullValue }

\* What an earlier run of the tool left in analysis/results.
StaleEntry ==
    [ trial |-> 1, params |-> SampleParams(0), score |-> 65,
      metrics |-> ParseMetricsFromReport(MetricsMid) ]
StaleHistoryFile == File(HistoryJson(<< StaleEntry >>, Some(65)))
StaleBestFile == File(BestJson(Some(StaleEntry.params), Some(65), Some(StaleEntry.metrics)))

(***************************************************************************)
(* run_auto_tune                                                           *)
(***************************************************************************)

\* Lines 262-285, for a trial count in Ns and a seed in Seeds; the results
\* directory is empty or holds the files of an earlier run.
InitWith(Ns, Seeds) ==
    /\ pc = "loop"
    /\ trials \in Ns
    /\ seed \in Seeds
    /\ rng = SeedRng(seed)
    /\ trial = 0
    /\ params = None
    /\ metrics = <<>>
    /\ score = None
    /\ history = <<>>
    /\ best_score = None
    /\ best_params = None
    /\ best_metrics = None
    /\ paramFile = None
    /\ \E earlier \in BOOLEAN :
          /\ metricsFile = IF earlier THEN MetricsMid ELSE None
          /\ historyFile = IF earlier THEN StaleHistoryFile ELSE None
          /\ bestFile = IF earlier THEN StaleBestFile ELSE None
    /\ raised = None
    /\ lastEval = None
    /\ nSampled = 0
    /\ nEvaluated = 0
    /\ nSucceeded = 0
    /\ nSaveCalls = 0
    /\ savedLen = 0
    /\ metricsOfTrial = FALSE

\* Line 292: params = sample_params(DEFAULT_PARAM_SPACE, rng)
Sample ==
    /\ pc = "loop"
    /\ trial < trials
    /\ params' = Some(SampleParamsIn(space, rng))
    /\ rng' = RngAfterSample(rng)
    /\ nSampled' = nSampled + 1
    /\ pc' = "save_params"
    /\ UNCHANGED << metricsOfTrial, outsideLoop >>
    /\ UNCHANGED << lastEval, trials, seed, trial, metrics, score, history, best_score,
                    best_params, best_metrics, paramFile, metricsFile, historyFile,
                    bestFile, raised, nEvaluated, nSucceeded, nSaveCalls, savedLen >>

\* Mutant of line 300: the parameters are not written.
SaveRuntimeParamsSkipped ==
    /\ pc = "save_params"
    /\ pc' = "evaluate"
    /\ UNCHANGED << metricsOfTrial, outsideLoop >>
    /\ UNCHANGED << trials, seed, rng, trial, params, metrics, score, history,
                    best_score, best_params, best_metrics, paramFile, metricsFile,
                    historyFile, bestFile, raised, lastEval, nSampled, nEvaluated,
                    nSucceeded, nSaveCalls, savedLen >>

\* Line 300: save_runtime_params(params) returns.
SaveRuntimeParams ==
    /\ pc = "save_params"
    /\ paramFile' = File(The(params))
    /\ pc' = "evaluate"
    /\ UNCHANGED << metricsOfTrial, outsideLoop >>
    /\ UNCHANGED << lastEval, trials, seed, rng, trial, params, metrics, score, history,
                    best_score, best_params, best_metrics, metricsFile, historyFile,
                    bestFile, raised, nSampled, nEvaluated, nSucceeded, nSaveCalls,
                    savedLen >>

\* Line 300: save_runtime_params(params) raises OSError (mkdir or open
\* fails: the file is as before; the write fails: the file is cut short).
\* Nothing in run_auto_tune catches it.
SaveRuntimeParamsRaises ==
    /\ pc = "save_params"
    /\ paramFile' \in { paramFile, Truncated(The(params)) }
    /\ raised' = Some("save_runtime_params")
    /\ pc' = "raised"
    /\ UNCHANGED << metricsOfTrial, outsideLoop >>
    /\ UNCHANGED << lastEval, trials, seed, rng, trial, params, metrics, score, history,
                    best_score, best_params, best_metrics, metricsFile, historyFile,
                    bestFile, nSampled, nEvaluated, nSucceeded, nSaveCalls, savedLen >>

\* clear_runtime_params(): unlink the file if it exists.
ClearedParamFile(f) == None

\* Mutant of lines 303-306: the `continue` after a failed evaluation is
\* missing, so the trial goes on to the analysis.
RunEvaluationNoContinue(outcomes) ==
    /\ pc = "evaluate"
    /\ nEvaluated' = nEvaluated + 1
    /\ \E o \in outcomes :
          /\ lastEval' = Some(o)
          /\ paramFile' = IF o = "ok" THEN paramFile ELSE None
          /\ pc' = "analysis"
    /\ UNCHANGED << metricsOfTrial, outsideLoop >>
    /\ UNCHANGED << trials, seed, rng, trial, params, metrics, score, history,
                    best_score, best_params, best_metrics, metricsFile, historyFile,
                    bestFile, raised, nSampled, nSucceeded, nSaveCalls, savedLen >>

\* Mutant of lines 303-306: giving a trial up draws from the generator.
RunEvaluationDrawsOnFailure(outcomes) ==
    /\ pc = "evaluate"
    /\ nEvaluated' = nEvaluated + 1
    /\ \E o \in outcomes :
          /\ lastEval' = Some(o)
          /\ IF o = "ok"
             THEN /\ pc' = "analysis"
                  /\ UNCHANGED << paramFile, trial, metricsOfTrial, rng >>
             ELSE /\ paramFile' = ClearedParamFile(paramFile)
                  /\ trial' = trial + 1
                  /\ metricsOfTrial' = FALSE
                  /\ rng' = StepRng(rng)
                  /\ pc' = "loop"
    /\ UNCHANGED outsideLoop
    /\ UNCHANGED << trials, seed, params, metrics, score, history, best_score,
                    best_params, best_metrics, metricsFile, historyFile, bestFile,
                    raised, nSampled, nSucceeded, nSaveCalls, savedLen >>

\* Lines 303-306: run_evaluation(profile) returns True, or returns False
\* and the trial is given up (clear_runtime_params(); continue).
RunEvaluation(outcomes) ==
    /\ pc = "evaluate"
    /\ nEvaluated' = nEvaluated + 1
    /\ \E o \in outcomes :
          /\ lastEval' = Some(o)
          /\ IF o = "ok"
             THEN /\ pc' = "analysis"
                  /\ UNCHANGED << paramFile, trial, metricsOfTrial >>
             ELSE /\ paramFile' = ClearedParamFile(paramFile)
                  /\ trial' = trial + 1
                  /\ metricsOfTrial' = FALSE
                  /\ pc' = "loop"
    /\ UNCHANGED outsideLoop
    /\ UNCHANGED << trials, seed, rng, params, metrics, score, history, best_score,
                    best_params, best_metrics, metricsFile, historyFile, bestFile,
                    raised, nSampled, nSucceeded, nSaveCalls, savedLen >>

\* The evaluator reaches lines 604-613 and writes metrics.json.
WroteMetrics(o) == o = "wrote"

\* run_analysis(): {} unless the subprocess exits 0; then whatever
\* parse_metrics_from_report() reads from the artifact on disk.
AnalysisResult(o, file) ==
    IF o \in {"wrote", "nolog"} THEN ParseMetricsFromReport(file) ELSE <<>>

\* Lines 309-314: metrics = run_analysis(); an empty result gives the trial
\* up (clear_runtime_params(); continue).
RunAnalysis(outcomes, artifacts) ==
    /\ pc = "analysis"
    /\ \E o \in outcomes :
          /\ IF WroteMetrics(o)
             THEN metricsFile' \in artifacts
             ELSE metricsFile' = metricsFile
          /\ metrics' = AnalysisResult(o, metricsFile')
          /\ IF DOMAIN metrics' = {}
             THEN /\ paramFile' = ClearedParamFile(paramFile)
                  /\ trial' = trial + 1
                  /\ metricsOfTrial' = FALSE
                  /\ pc' = "loop"
                  /\ UNCHANGED nSucceeded
             ELSE /\ pc' = "score"
                  /\ nSucceeded' = nSucceeded + 1
                  /\ metricsOfTrial' = WroteMetrics(o)
                  /\ UNCHANGED << paramFile, trial >>
    /\ UNCHANGED outsideLoop
    /\ UNCHANGED << lastEval, trials, seed, rng, params, score, history, best_score,
                    best_params, best_metrics, historyFile, bestFile, raised,
                    nSampled, nEvaluated, nSaveCalls, savedLen >>

\* Line 317: score = compute_objective_score(metrics)
ComputeScore ==
    /\ pc = "score"
    /\ ~ ScoreRaises(metrics)
    /\ score' = Some(ComputeObjectiveScore(metrics))
    /\ pc' = "update_best"
    /\ UNCHANGED << metricsOfTrial, outsideLoop >>
    /\ UNCHANGED << lastEval, trials, seed, rng, trial, params, metrics, history, best_score,
                    best_params, best_metrics, paramFile, metricsFile, historyFile,
                    bestFile, raised, nSampled, nEvaluated, nSucceeded, nSaveCalls,
                    savedLen >>

\* Line 317: compute_objective_score raises; nothing catches it.
ComputeScoreRaises ==
    /\ pc = "score"
    /\ ScoreRaises(metrics)
    /\ raised' = Some("compute_objective_score")
    /\ pc' = "raised"
    /\ UNCHANGED << metricsOfTrial, outsideLoop >>
    /\ UNCHANGED << lastEval, trials, seed, rng, trial, params, metrics, score, history,
                    best_score, best_params, best_metrics, paramFile, metricsFile,
                    historyFile, bestFile, nSampled, nEvaluated, nSucceeded,
                    nSaveCalls, savedLen >>

\* Mutants of line 321: no comparison at all, and `>=` for `>`.
ReplacesBestAlways(s, best) == TRUE
ReplacesBestOnTie(s, best) == IsNone(best) \/ s >= The(best)

\* Line 321: score > best_score, where best_score may still be float('-inf')
ReplacesBest(s, best) == IsNone(best) \/ s > The(best)

\* Lines 321-325
UpdateBest ==
    /\ pc = "update_best"
    /\ IF ReplacesBest(The(score), best_score)
       THEN /\ best_score' = score
            /\ best_params' = params
            /\ best_metrics' = Some(metrics)
       ELSE UNCHANGED << best_score, best_params, best_metrics >>
    /\ pc' = "record"
    /\ UNCHANGED << metricsOfTrial, outsideLoop >>
    /\ UNCHANGED << lastEval, trials, seed, rng, trial, params, metrics, score, history,
                    paramFile, metricsFile, historyFile, bestFile, raised, nSampled,
                    nEvaluated, nSucceeded, nSaveCalls, savedLen >>

\* Lines 328-333
AppendHistory ==
    /\ pc = "record"
    /\ history' = Append(history, [ trial |-> trial + 1, params |-> The(params),
                                    score |-> The(score), metrics |-> metrics ])
    /\ pc' = "checkpoint"
    /\ UNCHANGED << metricsOfTrial, outsideLoop >>
    /\ UNCHANGED << lastEval, trials, seed, rng, trial, params, metrics, score, best_score,
                    best_params, best_metrics, paramFile, metricsFile, historyFile,
                    bestFile, raised, nSampled, nEvaluated, nSucceeded, nSaveCalls,
                    savedLen >>

\* save_history: the history file after lines 390-395 completed.
SavedHistoryFile(h, bs) == File(HistoryJson(h, bs))

\* save_history: the best-config file after lines 398-414 completed.
SavedBestFile(old, bp, bs, bm) ==
    IF WritesBestConfig(bp) THEN File(BestJson(bp, bs, bm)) ELSE old

\* Line 336
CheckpointDue(t) == (t + 1) % CheckpointEvery = 0

\* Where save_history is called: line 337 (inside the loop) and line 344.
AtSaveHistory ==
    IF pc = "checkpoint" THEN CheckpointDue(trial) ELSE pc = "loop" /\ trial >= trials

\* Lines 336-338: the intermediate save, when due, returns.
Checkpoint ==
    /\ pc = "checkpoint"
    /\ IF CheckpointDue(trial)
       THEN /\ historyFile' = SavedHistoryFile(history, best_score)
            /\ bestFile' = SavedBestFile(bestFile, best_params, best_score, best_metrics)
            /\ nSaveCalls' = nSaveCalls + 1
            /\ savedLen' = Len(history)
       ELSE UNCHANGED << historyFile, bestFile, nSaveCalls, savedLen >>
    /\ pc' = "clear"
    /\ UNCHANGED << metricsOfTrial, outsideLoop >>
    /\ UNCHANGED << lastEval, trials, seed, rng, trial, params, metrics, score, history,
                    best_score, best_params, best_metrics, paramFile, metricsFile,
                    raised, nSampled, nEvaluated, nSucceeded >>

\* Lines 337 and 344: save_history raises OSError at one of its two writes
\* (open fails: that file is as before; the dump fails: it is cut short).
\* save_history does not catch it and neither does run_auto_tune.
SaveHistoryRaises ==
    /\ AtSaveHistory
    /\ nSaveCalls' = nSaveCalls + 1
    /\ \E at \in {"history_open", "history_write", "best_open", "best_write"} :
          /\ at \in {"best_open", "best_write"} => WritesBestConfig(best_params)
          /\ historyFile' =
                CASE at = "history_open" -> historyFile
                  [] at = "history_write" -> Truncated(HistoryJson(history, best_score))
                  [] OTHER -> SavedHistoryFile(history, best_score)
          /\ bestFile' =
                IF at = "best_write"
                THEN Truncated(BestJson(best_params, best_score, best_metrics))
                ELSE bestFile
          /\ savedLen' = IF at \in {"best_open", "best_write"} THEN Len(history) ELSE savedLen
    /\ raised' = Some("save_history")
    /\ pc' = "raised"
    /\ UNCHANGED << metricsOfTrial, outsideLoop >>
    /\ UNCHANGED << lastEval, trials, seed, rng, trial, params, metrics, score, history,
                    best_score, best_params, best_metrics, paramFile, metricsFile,
                    nSampled, nEvaluated, nSucceeded >>

\* Line 341, then the next iteration of the for loop.
ClearRuntimeParams ==
    /\ pc = "clear"
    /\ paramFile' = ClearedParamFile(paramFile)
    /\ trial' = trial + 1
    /\ metricsOfTrial' = FALSE
    /\ pc' = "loop"
    /\ UNCHANGED outsideLoop
    /\ UNCHANGED << lastEval, trials, seed, rng, params, metrics, score, history, best_score,
                    best_params, best_metrics, metricsFile, historyFile, bestFile,
                    raised, nSampled, nEvaluated, nSucceeded, nSaveCalls, savedLen >>

\* Mutant of line 344: the final save is skipped for an empty history.
FinalSaveIfHistory ==
    /\ pc = "loop"
    /\ trial >= trials
    /\ IF history # <<>>
       THEN /\ historyFile' = SavedHistoryFile(history, best_score)
            /\ bestFile' = SavedBestFile(bestFile, best_params, best_score, best_metrics)
            /\ savedLen' = Len(history)
       ELSE UNCHANGED << historyFile, bestFile, savedLen >>
    /\ nSaveCalls' = nSaveCalls + 1
    /\ pc' = "done"
    /\ UNCHANGED << metricsOfTrial, outsideLoop >>
    /\ UNCHANGED << lastEval, trials, seed, rng, trial, params, metrics, score, history,
                    best_score, best_params, best_metrics, paramFile, metricsFile,
                    raised, nSampled, nEvaluated, nSucceeded >>

\* Line 344: the final save returns, and run_auto_tune after it.
FinalSave ==
    /\ pc = "loop"
    /\ trial >= trials
    /\ historyFile' = SavedHistoryFile(history, best_score)
    /\ bestFile' = SavedBestFile(bestFile, best_params, best_score, best_metrics)
    /\ nSaveCalls' = nSaveCalls + 1
    /\ savedLen' = Len(history)
    /\ pc' = "done"
    /\ UNCHANGED << metricsOfTrial, outsideLoop >>
    /\ UNCHANGED << lastEval, trials, seed, rng, trial, params, metrics, score, history,
                    best_score, best_params, best_metrics, paramFile, metricsFile,
                    raised, nSampled, nEvaluated, nSucceeded >>

\* run_evaluation_mode has not been called and left no backup file.
ModeIdle ==
    /\ backupFile = None
    /\ mpc = "idle"
    /\ mode = "baseline"
    /\ modeRet = None
    /\ paramBefore = None

\* websocket_client.py, lines 23-32: a client as __init__ leaves it, with no
\* task using it.
ClientNew ==
    /\ running = FALSE
    /\ connected = FALSE
    /\ ws = None
    /\ conns = {}
    /\ receiving = {}
    /\ spc = "idle"
    /\ closing = None
    /\ nOpened = 0
    /\ openedAtStop = 0

ClientIdle ==
    /\ ClientNew
    /\ rpc = "none"

\* bridge_server.py, lines 25-29: a server no client has connected to.
ServerIdle ==
    /\ inbox = <<>>
    /\ sent = <<>>
    /\ nRead = 0
    /\ hpc = "none"
    /\ connected_clients = {}

\* No program beside the tuner and the evaluator is running.
ElsewhereIdle ==
    /\ ModeIdle
    /\ ClientIdle
    /\ ServerIdle

\* The evaluator's main() is not running over a logs directory.
MainIdle ==
    /\ log_files = <<>>
    /\ fileIdx = 0
    /\ results = <<>>
    /\ rocPrFiles = <<>>

\* The evaluator as a process of its own has not been started.
EvaluatorIdle ==
    /\ epc = "idle"
    /\ events = <<>>
    /\ predictions = None
    /\ evalMetrics = None
    /\ call = None
    /\ ret = None
    /\ roc_pr_data = None
    /\ MainIdle

Init ==
    /\ InitWith(0..MaxTrials, 1..MaxSeed)
    /\ space = ParamSpace
    /\ EvaluatorIdle
    /\ ElsewhereIdle

Next ==
    \/ Sample
    \/ SaveRuntimeParams
    \/ SaveRuntimeParamsRaises
    \/ RunEvaluation(EvalOutcomes)
    \/ RunAnalysis(AnalysisOutcomes, ArtifactsFull)
    \/ ComputeScore
    \/ ComputeScoreRaises
    \/ UpdateBest
    \/ AppendHistory
    \/ Checkpoint
    \/ SaveHistoryRaises
    \/ ClearRuntimeParams
    \/ FinalSave

Spec == Init /\ [][Next]_vars

\* Long runs: up to LongTrials trials that either succeed or fail, so that
\* the intermediate save comes due.
InitLong ==
    /\ InitWith(0..LongTrials, {1})
    /\ space = ParamSpace
    /\ EvaluatorIdle
    /\ ElsewhereIdle

NextLong ==
    \/ Sample
    \/ SaveRuntimeParams
    \/ SaveRuntimeParamsRaises
    \/ RunEvaluation({"ok", "nonzero"})
    \/ RunAnalysis({"wrote", "timeout"}, ArtifactsThin)
    \/ ComputeScore
    \/ ComputeScoreRaises
    \/ UpdateBest
    \/ AppendHistory
    \/ Checkpoint
    \/ SaveHistoryRaises
    \/ ClearRuntimeParams
    \/ FinalSave

SpecLong == InitLong /\ [][NextLong]_vars

(***************************************************************************)
(* Runs over a parameter space that need not be well formed: the dataclass *)
(* ParamSpace takes any pair as a range.                                   *)
(***************************************************************************)
SpaceTrials == 1    \* SpecSpace: trials ranges over 0..SpaceTrials

\* A range with min > max
Malformed(sp) == \E name \in DOMAIN sp : sp[name][1] > sp[name][2]

ParamSpaces ==
    { ParamSpace,
      [ ParamSpace EXCEPT !.threat_engage_threshold = << 85000, 55000 >> ],
      [ ParamSpace EXCEPT !.threat_weight_heading = << 120, 80 >> ] }

InitSpace ==
    /\ InitWith(0..SpaceTrials, {1})
    /\ space \in ParamSpaces
    /\ EvaluatorIdle
    /\ ElsewhereIdle

SpecSpace == InitSpace /\ [][Next]_vars

(***************************************************************************)
(* One trial up to the objective score, over a wide choice of metrics:     *)
(* every designated key absent or present, every field absent or present,  *)
(* next to a key and a field the objective does not name.                  *)
(***************************************************************************)
\* All dictionaries with some of the given field names and the given values.
FieldMaps(names, values) == UNION { [ chosen -> values ] : chosen \in SUBSET names }

\* Nothing, or one entry of the artifact under the given key.
EntryChoices(key, fieldMaps) ==
    { <<>> } \cup { << << KeyStr(key), JsonObject(f) >> >> : f \in fieldMaps }

ScoreArtifacts ==
    { Artifact(a \o b \o c) :
        a \in EntryChoices(key_all_hostile,
                           FieldMaps({"HOSTILE_f1", "accuracy", "HOSTILE_recall"}, {0, 5})),
        b \in EntryChoices(key_mixed_civil,
                           FieldMaps({"HOSTILE_f1", "civil_fp_rate"}, {1, 6})),
        c \in EntryChoices(key_civil_only, { [ HOSTILE_f1 |-> 9, accuracy |-> 9 ] }) }
    \cup { MetricsNullValue }

InitScore ==
    /\ InitWith({1}, {1})
    /\ space = ParamSpace
    /\ EvaluatorIdle
    /\ ElsewhereIdle

NextScore ==
    \/ Sample
    \/ SaveRuntimeParams
    \/ RunEvaluation({"ok"})
    \/ RunAnalysis({"wrote"}, ScoreArtifacts)
    \/ ComputeScore
    \/ ComputeScoreRaises

SpecScore == InitScore /\ [][NextScore]_vars

(***************************************************************************)
(* scripts/eval_classification_report.py: the evaluator.                   *)
(*                                                                         *)
(* A Python string is the sequence of its characters, so that upper() and  *)
(* strip() are computed; an Optional value is None or Some(v).  Threat     *)
(* scores are points (0..100), confidences are tenths.                     *)
(***************************************************************************)
THREAT_ENGAGE_THRESHOLD == 70
CLASS_CONFIDENCE_THRESHOLD == 7

HOSTILE == << "H", "O", "S", "T", "I", "L", "E" >>
CIVIL == << "C", "I", "V", "I", "L" >>
UNKNOWN == << "U", "N", "K", "N", "O", "W", "N" >>
FRIENDLY == << "F", "R", "I", "E", "N", "D", "L", "Y" >>

LowerCase == << "a", "b", "c", "d", "e", "f", "g", "h", "i", "j", "k", "l", "m",
                "n", "o", "p", "q", "r", "s", "t", "u", "v", "w", "x", "y", "z" >>
UpperCase == << "A", "B", "C", "D", "E", "F", "G", "H", "I", "J", "K", "L", "M",
                "N", "O", "P", "Q", "R", "S", "T", "U", "V", "W", "X", "Y", "Z" >>
Whitespace == { " ", "\t", "\n" }

\* str.upper()
UpperChar(c) ==
    IF \E i \in DOMAIN LowerCase : LowerCase[i] = c
    THEN UpperCase[CHOOSE i \in DOMAIN LowerCase : LowerCase[i] = c]
    ELSE c
Upper(str) == [ i \in DOMAIN str |-> UpperChar(str[i]) ]

\* str.strip()
RECURSIVE LStrip(_)
LStrip(str) ==
    IF str # <<>> /\ Head(str) \in Whitespace THEN LStrip(Tail(str)) ELSE str
RECURSIVE RStrip(_)
RStrip(str) ==
    IF str # <<>> /\ str[Len(str)] \in Whitespace
    THEN RStrip(SubSeq(str, 1, Len(str) - 1))
    ELSE str
Strip(str) == RStrip(LStrip(str))

\* Mutant of line 59: `>` for `>=`.
ComputePredLabelStrict(threat_score, classification, class_confidence, threat_threshold, class_confidence_threshold) ==
    IF ~ IsNone(threat_score) /\ The(threat_score) > threat_threshold
    THEN HOSTILE
    ELSE IF /\ ~ IsNone(classification)
            /\ The(classification) # <<>>
            /\ Strip(Upper(The(classification))) = CIVIL
            /\ ~ IsNone(class_confidence)
            /\ The(class_confidence) >= class_confidence_threshold
         THEN CIVIL
         ELSE UNKNOWN

\* compute_pred_label, lines 41-70.  `if classification:` is false for None
\* and for the empty string.
ComputePredLabel(threat_score, classification, class_confidence, threat_threshold, class_confidence_threshold) ==
    IF ~ IsNone(threat_score) /\ The(threat_score) >= threat_threshold
    THEN HOSTILE
    ELSE IF /\ ~ IsNone(classification)
            /\ The(classification) # <<>>
            /\ Strip(Upper(The(classification))) = CIVIL
            /\ ~ IsNone(class_confidence)
            /\ The(class_confidence) >= class_confidence_threshold
         THEN CIVIL
         ELSE UNKNOWN

\* compute_pred_label called on its own: the arguments of the call.
ThreatScores(threshold) ==
    { None, Some(0), Some(threshold - 1), Some(threshold), Some(threshold + 1) }
Classifications ==
    { None, Some(<<>>), Some(CIVIL), Some(<< "c", "i", "v", "i", "l" >>),
      Some(<< "C", "i", "v", "i", "l", " " >>), Some(<< " ", "c", "i", "v", "i", "l" >>),
      Some(HOSTILE), Some(FRIENDLY), Some(UNKNOWN) }
Confidences(threshold) ==
    { None, Some(0), Some(threshold - 1), Some(threshold), Some(threshold + 1) }
ThreatThresholds == { THREAT_ENGAGE_THRESHOLD, 50 }

TunerOff ==
    /\ InitWith({0}, {1})
    /\ IsNone(metricsFile)
    /\ space = ParamSpace

InitPredLabel ==
    /\ TunerOff
    /\ ElsewhereIdle
    /\ epc = "call"
    /\ events = <<>>
    /\ predictions = None
    /\ evalMetrics = None
    /\ \E t \in ThreatThresholds :
       \E ts \in ThreatScores(t), cls \in Classifications,
          conf \in Confidences(CLASS_CONFIDENCE_THRESHOLD) :
          call = Some([ threat_score |-> ts, classification |-> cls,
                        class_confidence |-> conf, threat_threshold |-> t,
                        class_confidence_threshold |-> CLASS_CONFIDENCE_THRESHOLD ])
    /\ ret = None
    /\ roc_pr_data = None
    /\ MainIdle

\* The variables of run_auto_tune, which the evaluator does not touch.
tunerVars == << pc, trials, seed, rng, trial, params, metrics, score, history,
                best_score, best_params, best_metrics, paramFile, metricsFile,
                historyFile, bestFile, raised, lastEval, nSampled, nEvaluated,
                nSucceeded, nSaveCalls, savedLen, metricsOfTrial, space >>

CallComputePredLabel ==
    /\ epc = "call"
    /\ ret' = Some(ComputePredLabel(The(call).threat_score, The(call).classification,
                                    The(call).class_confidence, The(call).threat_threshold,
                                    The(call).class_confidence_threshold))
    /\ epc' = "returned"
    /\ UNCHANGED << tunerVars, elsewhere, events, predictions, evalMetrics, call, mainVars >>

NextPredLabel == CallComputePredLabel

SpecPredLabel == InitPredLabel /\ [][NextPredLabel]_vars

(***************************************************************************)
(* The evaluator on one log file: load_log_events has parsed the lines     *)
(* into `events`.  An event is a record with the fields the evaluator      *)
(* reads; a field the JSON object lacks is None.  class_info is None or    *)
(* Some(confidence).  timestamp is the event's place in the file.          *)
(***************************************************************************)
Event(type, drone_id, timestamp) ==
    [ event |-> type, drone_id |-> drone_id, timestamp |-> timestamp,
      true_label |-> None, threat_score |-> None, fused_threat_score |-> None,
      classification |-> None, fused_classification |-> None,
      class_confidence |-> None, class_info |-> None, total_score |-> None ]

\* Python truthiness of an Optional number and of an Optional string: None,
\* 0 and "" are false.
TruthyNumber(o) == ~ IsNone(o) /\ The(o) # 0
TruthyString(o) == ~ IsNone(o) /\ The(o) # <<>>

\* a or b
OrNumber(a, b) == IF TruthyNumber(a) THEN a ELSE b
OrString(a, b) == IF TruthyString(a) THEN a ELSE b

RecognizedLabels == { HOSTILE, CIVIL, UNKNOWN }

\* Lines 97-105: one step of the loop of extract_drone_labels.
LabelledBy(drone_labels, e) ==
    IF /\ e.event = "drone_spawned"
       /\ TruthyString(e.drone_id)
       /\ TruthyString(e.true_label)
       /\ Strip(Upper(The(e.true_label))) \in RecognizedLabels
    THEN Put(drone_labels, The(e.drone_id), Strip(Upper(The(e.true_label))))
    ELSE drone_labels

\* extract_drone_labels(events), continued from the dictionary built so far
RECURSIVE ExtractDroneLabels(_, _)
ExtractDroneLabels(evs, drone_labels) ==
    IF evs = <<>> THEN drone_labels
    ELSE ExtractDroneLabels(Tail(evs), LabelledBy(drone_labels, Head(evs)))

\* Lines 131-134: the three values a fused_track_update is judged by.
FusedThreatScore(e) == OrNumber(e.threat_score, e.fused_threat_score)
FusedClassification(e) == OrString(e.classification, e.fused_classification)
FusedConfidence(e) ==
    OrNumber(e.class_confidence, IF IsNone(e.class_info) THEN Some(0) ELSE e.class_info)

Prediction(e, true_label, threat_score, classification, class_confidence) ==
    [ drone_id |-> The(e.drone_id),
      true_label |-> true_label,
      pred_label |-> ComputePredLabel(threat_score, classification, class_confidence,
                                      THREAT_ENGAGE_THRESHOLD, CLASS_CONFIDENCE_THRESHOLD),
      threat_score |-> threat_score,
      classification |-> classification,
      class_confidence |-> class_confidence,
      timestamp |-> e.timestamp ]

\* Mutant of lines 153-169: threat_score_update events are passed over.
PredictionsOfFusedOnly(e, drone_labels) ==
    IF ~ TruthyString(e.drone_id) \/ The(e.drone_id) \notin DOMAIN drone_labels THEN <<>>
    ELSE IF e.event = "fused_track_update"
    THEN << Prediction(e, drone_labels[The(e.drone_id)], FusedThreatScore(e),
                       FusedClassification(e), FusedConfidence(e)) >>
    ELSE <<>>

\* Lines 120-169: what one event appends to `predictions`.
PredictionsOf(e, drone_labels) ==
    IF ~ TruthyString(e.drone_id) \/ The(e.drone_id) \notin DOMAIN drone_labels THEN <<>>
    ELSE IF e.event = "fused_track_update"
    THEN << Prediction(e,
                       IF TruthyString(e.true_label)
                       THEN The(e.true_label)
                       ELSE drone_labels[The(e.drone_id)],
                       FusedThreatScore(e), FusedClassification(e), FusedConfidence(e)) >>
    ELSE IF e.event = "threat_score_update"
    THEN << Prediction(e, drone_labels[The(e.drone_id)], e.total_score, None, None) >>
    ELSE <<>>

\* Mutant of lines 137-139: the label an event carries replaces the drone's
\* label in drone_labels, so it is used for the drone's later events too.
RECURSIVE ExtractFromOverriding(_, _)
ExtractFromOverriding(evs, drone_labels) ==
    IF evs = <<>> THEN <<>>
    ELSE LET e == Head(evs)
             ps == PredictionsOf(e, drone_labels)
         IN  ps \o ExtractFromOverriding(Tail(evs),
                      IF ps # <<>>
                      THEN Put(drone_labels, The(e.drone_id), ps[1].true_label)
                      ELSE drone_labels)

RECURSIVE ExtractFrom(_, _)
ExtractFrom(evs, drone_labels) ==
    IF evs = <<>> THEN <<>>
    ELSE PredictionsOf(Head(evs), drone_labels) \o ExtractFrom(Tail(evs), drone_labels)

\* extract_predictions_from_log, lines 110-171
ExtractPredictionsFromLog(evs) ==
    LET drone_labels == ExtractDroneLabels(evs, <<>>)
    IN  IF DOMAIN drone_labels = {} THEN <<>> ELSE ExtractFrom(evs, drone_labels)

(***************************************************************************)
(* compute_metrics.  A float is the exact fraction <<numerator,            *)
(* denominator>> with a positive denominator; 0.0 is <<0, 1>>.             *)
(***************************************************************************)
Zero == << 0, 1 >>
Div(n, d) == << n, d >>
Positive(x) == x[1] > 0
Plus(x, y) == << x[1] * y[2] + y[1] * x[2], x[2] * y[2] >>
Times(x, y) == << x[1] * y[1], x[2] * y[2] >>
Quotient(x, y) == << x[1] * y[2], x[2] * y[1] >>
Twice(x) == << 2 * x[1], x[2] >>
SameNumber(x, y) == x[1] * y[2] = y[1] * x[2]

\* class_stats = defaultdict(lambda: {'TP': 0, 'FP': 0, 'FN': 0})
NoStats == [ TP |-> 0, FP |-> 0, FN |-> 0 ]
StatsOf(class_stats, label) ==
    IF label \in DOMAIN class_stats THEN class_stats[label] ELSE NoStats

\* class_stats[label][field] += 1
Counted(class_stats, label, field) ==
    Put(class_stats, label, [ StatsOf(class_stats, label) EXCEPT ![field] = @ + 1 ])

\* Lines 196-204: the loop that fills class_stats.
RECURSIVE ClassStats(_, _)
ClassStats(preds, class_stats) ==
    IF preds = <<>> THEN class_stats
    ELSE LET pred == Head(preds)
         IN  ClassStats(Tail(preds),
                 IF pred.true_label = pred.pred_label
                 THEN Counted(class_stats, pred.true_label, "TP")
                 ELSE Counted(Counted(class_stats, pred.true_label, "FN"),
                              pred.pred_label, "FP"))

\* Line 190: sum(1 for p in predictions if p['true_label'] == p['pred_label'])
RECURSIVE Correct(_)
Correct(preds) ==
    IF preds = <<>> THEN 0
    ELSE (IF Head(preds).true_label = Head(preds).pred_label THEN 1 ELSE 0)
         + Correct(Tail(preds))

\* Lines 220-222
Precision(st) == IF st.TP + st.FP > 0 THEN Div(st.TP, st.TP + st.FP) ELSE Zero
Recall(st) == IF st.TP + st.FN > 0 THEN Div(st.TP, st.TP + st.FN) ELSE Zero
F1(st) ==
    IF Positive(Plus(Precision(st), Recall(st)))
    THEN Quotient(Twice(Times(Precision(st), Recall(st))),
                  Plus(Precision(st), Recall(st)))
    ELSE Zero

\* Mutant of line 247: every true-CIVIL prediction that is not predicted
\* CIVIL counts as a false positive.
RECURSIVE CivilCountsAnyMiss(_, _)
CivilCountsAnyMiss(preds, counts) ==
    IF preds = <<>> THEN counts
    ELSE LET pred == Head(preds)
         IN  CivilCountsAnyMiss(Tail(preds),
                 IF pred.true_label = CIVIL
                 THEN << counts[1] + (IF pred.pred_label # CIVIL THEN 1 ELSE 0),
                         counts[2] + 1 >>
                 ELSE counts)

\* Lines 242-248: <<civil_fp_count, total_civil>> after the loop.
RECURSIVE CivilCounts(_, _)
CivilCounts(preds, counts) ==
    IF preds = <<>> THEN counts
    ELSE LET pred == Head(preds)
         IN  CivilCounts(Tail(preds),
                 IF pred.true_label = CIVIL
                 THEN << counts[1] + (IF pred.pred_label = HOSTILE THEN 1 ELSE 0),
                         counts[2] + 1 >>
                 ELSE counts)

\* Line 250
CivilFpRate(civil_fp_count, total_civil) ==
    IF total_civil > 0 THEN Div(civil_fp_count, total_civil) ELSE Zero

\* compute_metrics(predictions) for a non-empty list, lines 189-255
ComputeMetrics(preds) ==
    LET correct == Correct(preds)
        class_stats == ClassStats(preds, <<>>)
        hostile == StatsOf(class_stats, HOSTILE)
        civil == StatsOf(class_stats, CIVIL)
        unknown == StatsOf(class_stats, UNKNOWN)
        total_hostile == hostile.TP + hostile.FN
        counts == CivilCounts(preds, << 0, 0 >>)
    IN  [ accuracy |-> Div(correct, Len(preds)),
          total_predictions |-> Len(preds),
          correct |-> correct,
          incorrect |-> Len(preds) - correct,
          HOSTILE_precision |-> Precision(hostile),
          HOSTILE_recall |-> Recall(hostile),
          HOSTILE_f1 |-> F1(hostile),
          HOSTILE_TP |-> hostile.TP,
          HOSTILE_FP |-> hostile.FP,
          HOSTILE_FN |-> hostile.FN,
          CIVIL_precision |-> Precision(civil),
          CIVIL_recall |-> Recall(civil),
          CIVIL_f1 |-> F1(civil),
          CIVIL_TP |-> civil.TP,
          CIVIL_FP |-> civil.FP,
          CIVIL_FN |-> civil.FN,
          UNKNOWN_precision |-> Precision(unknown),
          UNKNOWN_recall |-> Recall(unknown),
          UNKNOWN_f1 |-> F1(unknown),
          UNKNOWN_TP |-> unknown.TP,
          UNKNOWN_FP |-> unknown.FP,
          UNKNOWN_FN |-> unknown.FN,
          FP_rate |-> Div(hostile.FP, Len(preds)),
          FN_rate |-> IF total_hostile > 0 THEN Div(hostile.FN, total_hostile) ELSE Zero,
          civil_fp_rate |-> CivilFpRate(counts[1], counts[2]),
          civil_fp_count |-> counts[1],
          total_civil_samples |-> counts[2] ]

(***************************************************************************)
(* compute_roc_pr_data                                                     *)
(***************************************************************************)
\* thresholds = [i * 5 for i in range(0, 21)]
Thresholds == [ i \in 1..21 |-> (i - 1) * 5 ]

\* sorted(..., key=threat_score, reverse=True) is stable: p goes behind every
\* element whose threat score is not smaller.
RECURSIVE InsertByThreat(_, _)
InsertByThreat(p, sorted) ==
    IF sorted = <<>> THEN << p >>
    ELSE IF The(Head(sorted).threat_score) >= The(p.threat_score)
         THEN << Head(sorted) >> \o InsertByThreat(p, Tail(sorted))
         ELSE << p >> \o sorted

\* Lines 281-285: the predictions that have a threat score, highest first.
RECURSIVE SortedPreds(_)
SortedPreds(preds) ==
    IF preds = <<>> THEN <<>>
    ELSE LET front == SubSeq(preds, 1, Len(preds) - 1)
             p == preds[Len(preds)]
         IN  IF IsNone(p.threat_score) THEN SortedPreds(front)
             ELSE InsertByThreat(p, SortedPreds(front))

\* Mutant of line 305: the stored pred_label stands for the swept one.
SweptLabelStored(pred, threshold) == pred.pred_label

\* Line 305: pred_label = 'HOSTILE' if threat_score >= threshold else 'UNKNOWN'
SweptLabel(pred, threshold) ==
    IF The(pred.threat_score) >= threshold THEN HOSTILE ELSE UNKNOWN

\* Lines 297-316: the four counters after the loop over sorted_preds.
RECURSIVE SweepCounts(_, _, _, _)
SweepCounts(sorted_preds, label, threshold, counts) ==
    IF sorted_preds = <<>> THEN counts
    ELSE LET pred == Head(sorted_preds)
             field == IF pred.true_label = label
                      THEN IF SweptLabel(pred, threshold) = label THEN "tp" ELSE "fn"
                      ELSE IF SweptLabel(pred, threshold) = label THEN "fp" ELSE "tn"
         IN  SweepCounts(Tail(sorted_preds), label, threshold,
                         [ counts EXCEPT ![field] = @ + 1 ])

\* Lines 318-337: the two points of one threshold.
RocPoint(threshold, c) ==
    [ threshold |-> threshold,
      tpr |-> IF c.tp + c.fn > 0 THEN Div(c.tp, c.tp + c.fn) ELSE Zero,
      fpr |-> IF c.fp + c.tn > 0 THEN Div(c.fp, c.fp + c.tn) ELSE Zero ]
PrPoint(threshold, c) ==
    [ threshold |-> threshold,
      precision |-> IF c.tp + c.fp > 0 THEN Div(c.tp, c.tp + c.fp) ELSE Zero,
      recall |-> IF c.tp + c.fn > 0 THEN Div(c.tp, c.tp + c.fn) ELSE Zero ]

\* compute_roc_pr_data(predictions, label), lines 274-342
ComputeRocPrData(preds, label) ==
    LET sorted_preds == SortedPreds(preds)
        counts(threshold) ==
            SweepCounts(sorted_preds, label, threshold,
                        [ tp |-> 0, fp |-> 0, fn |-> 0, tn |-> 0 ])
    IN  IF sorted_preds = <<>>
        THEN [ roc_points |-> <<>>, pr_points |-> <<>> ]
        ELSE [ roc_points |->
                 [ i \in DOMAIN Thresholds |-> RocPoint(Thresholds[i], counts(Thresholds[i])) ],
               pr_points |->
                 [ i \in DOMAIN Thresholds |-> PrPoint(Thresholds[i], counts(Thresholds[i])) ] ]

(***************************************************************************)
(* The evaluator's work on one log file, as main() does it: extract the    *)
(* predictions; a file without predictions is passed over; otherwise the   *)
(* metrics are computed.                                                   *)
(***************************************************************************)
MaxEvents == 3      \* SpecEval: a log file holds up to MaxEvents events

d1 == << "d", "1" >>
d2 == << "d", "2" >>

Spawned(drone_id, true_label) ==
    [ Event("drone_spawned", Some(drone_id), 0) EXCEPT !.true_label = Some(true_label) ]
FusedUpdate(drone_id, threat_score, classification, confidence) ==
    [ Event("fused_track_update", Some(drone_id), 0) EXCEPT
        !.threat_score = Some(threat_score),
        !.classification = Some(classification),
        !.class_info = Some(confidence) ]
ThreatUpdate(drone_id, total_score) ==
    [ Event("threat_score_update", Some(drone_id), 0) EXCEPT
        !.total_score = Some(total_score) ]

\* The lines a log file is made of (timestamps are set by LogFile).
LogLines ==
    { Spawned(d1, HOSTILE),
      Spawned(d1, << " ", "c", "i", "v", "i", "l" >>),
      Spawned(d2, CIVIL),
      Spawned(d2, FRIENDLY),
      FusedUpdate(d1, 80, HOSTILE, 9),
      FusedUpdate(d1, 10, CIVIL, 9),
      FusedUpdate(d2, 80, CIVIL, 9),
      FusedUpdate(d2, 10, << "c", "i", "v", "i", "l" >>, 8),
      [ FusedUpdate(d1, 80, HOSTILE, 9) EXCEPT !.true_label = Some(FRIENDLY) ],
      ThreatUpdate(d1, 80),
      ThreatUpdate(d2, 10),
      [ ThreatUpdate(d1, 80) EXCEPT !.true_label = Some(CIVIL) ],
      FusedUpdate(d2, 0, CIVIL, 9),
      Event("engagement_started", Some(d1), 0),
      Event("fused_track_update", None, 0) }

\* A log file: its lines, stamped with their place in the file.
LogFile(lines) == [ i \in DOMAIN lines |-> [ lines[i] EXCEPT !.timestamp = i ] ]

InitEval ==
    /\ TunerOff
    /\ ElsewhereIdle
    /\ epc = "extract"
    /\ \E n \in 0..MaxEvents : \E lines \in [ 1..n -> LogLines ] :
          events = LogFile(lines)
    /\ predictions = None
    /\ evalMetrics = None
    /\ call = None
    /\ ret = None
    /\ roc_pr_data = None
    /\ MainIdle

\* main, lines 547-551: predictions = extract_predictions_from_log(log_file);
\* `if not predictions: continue`
ExtractPredictions ==
    /\ epc = "extract"
    /\ predictions' = Some(ExtractPredictionsFromLog(events))
    /\ epc' = IF The(predictions') = <<>> THEN "skipped" ELSE "metrics"
    /\ UNCHANGED << tunerVars, elsewhere, events, evalMetrics, call, ret, mainVars >>

\* main, line 564: metrics = compute_metrics(predictions)
ComputeMetricsOfFile ==
    /\ epc = "metrics"
    /\ evalMetrics' = Some(ComputeMetrics(The(predictions)))
    /\ epc' = "done"
    /\ UNCHANGED << tunerVars, elsewhere, events, predictions, call, ret, mainVars >>

\* main, line 567: roc_pr_data = compute_roc_pr_data(predictions, 'HOSTILE')
ComputeRocPrOfFile ==
    /\ epc = "done"
    /\ roc_pr_data' = Some(ComputeRocPrData(The(predictions), HOSTILE))
    /\ epc' = "curves"
    /\ UNCHANGED << tunerVars, elsewhere, events, predictions, evalMetrics, call, ret, dirVars >>

NextEval ==
    \/ ExtractPredictions
    \/ ComputeMetricsOfFile
    \/ ComputeRocPrOfFile

SpecEval == InitEval /\ [][NextEval]_vars

(***************************************************************************)
(* The evaluator's main() over a logs directory.  A log file is its path   *)
(* below --logs-dir (directory names and file name, each a sequence of     *)
(* underscore-separated parts) and its lines.  A line is blank, is not     *)
(* JSON ("invalid"), is JSON that is no object ("other": a number, a list, *)
(* a string, null) or is an object, the event.                             *)
(***************************************************************************)
MaxFiles == 2       \* SpecMain: the logs directory holds up to MaxFiles log files

ObjectLine(e) == [ json |-> "object", event |-> Some(e) ]
BlankLine == [ json |-> "blank", event |-> None ]
InvalidLine == [ json |-> "invalid", event |-> None ]
OtherLine == [ json |-> "other", event |-> None ]

\* load_log_events, lines 77-90: blank lines are passed over, a line that
\* json.loads rejects is reported and passed over, every other line's value
\* is appended, an object or not.
LoadLogEvents(lines) ==
    SelectSeq(lines, LAMBDA l : l.json \in { "object", "other" })

\* Line 98 (and 121): event.get(...) on a value that is no object raises
\* AttributeError, which nothing catches.
GetRaises(loaded) == \E i \in DOMAIN loaded : loaded[i].json = "other"

\* The loaded values as events, when all of them are objects.
EventsOf(loaded) == LogFile([ i \in DOMAIN loaded |-> The(loaded[i].event) ])

\* extract_predictions_from_log(log_file) on a file none of whose lines raises
PredictionsOfFile(lines) == ExtractPredictionsFromLog(EventsOf(LoadLogEvents(lines)))

\* Lines 515-516: rel_path.parts
RelParts(f) == f.dirs \o << f.name >>

\* Lines 533-540: the scenario an experiment name stands for, None if none.
ScenarioOf(experiment_name) ==
    IF Contains(experiment_name, key_all_hostile[1]) THEN Some(key_all_hostile[1])
    ELSE IF Contains(experiment_name, key_mixed_civil[1]) THEN Some(key_mixed_civil[1])
    ELSE IF Contains(experiment_name, key_civil_only[1]) THEN Some(key_civil_only[1])
    ELSE None

\* Lines 525-542: key = (scenario, mode), None when the file is passed over.
\* The mode is the second path component, whatever it is.
KeyOf(f) ==
    IF Len(RelParts(f)) < 2 THEN None
    ELSE IF IsNone(ScenarioOf(RelParts(f)[1])) THEN None
    ELSE Some(<< The(ScenarioOf(RelParts(f)[1])), RelParts(f)[2] >>)

\* Lines 570-588: results[key] is created with the roc_pr_data of the file
\* at hand if the key is new; the predictions are appended in either case.
Accumulate(res, key, preds, roc) ==
    IF \E i \in DOMAIN res : res[i].key = key
    THEN [ i \in DOMAIN res |->
             IF res[i].key = key
             THEN [ res[i] EXCEPT !.predictions = @ \o preds ]
             ELSE res[i] ]
    ELSE Append(res, [ key |-> key, predictions |-> preds, roc_pr_data |-> roc ])

\* Line 611: key_str = f"{scenario}_{mode}"
EvaluatorKeyStr(key) == key[1] \o key[2]

\* Lines 591-613: the content of metrics.json, the final metrics of every
\* key in the order of `results`.
MetricsJson(res) ==
    Artifact([ i \in DOMAIN res |->
                 << EvaluatorKeyStr(res[i].key),
                    JsonObject(ComputeMetrics(res[i].predictions)) >> ])

\* save_roc_pr_data, lines 423-435: one file per key with results[key]['roc_pr_data']
SavedRocPr(res) ==
    [ k \in { res[i].key : i \in DOMAIN res } |->
        (CHOOSE i \in DOMAIN res : res[i].key = k) ]

\* The directory names the log files lie under, below --logs-dir.
LogDirs ==
    { << << "all", "hostile", "fusion" >>, << "FUSION" >> >>,
      << << "all", "hostile", "fusion" >>, << "fusion" >> >>,
      << << "mixed", "civil", "fusion" >>, << "FUSION" >> >>,
      << << "all", "hostile", "baseline" >> >>,
      << << "guidance", "test" >>, << "FUSION" >> >> }

\* run_0.jsonl, run_1.jsonl, ...
FileNames == << "0.jsonl", "1.jsonl", "2.jsonl", "3.jsonl" >>
FileName(i) == << "run", FileNames[i] >>

\* What a log file holds.
LogContents ==
    { << ObjectLine(Spawned(d1, HOSTILE)), ObjectLine(FusedUpdate(d1, 80, HOSTILE, 9)) >>,
      << ObjectLine(Spawned(d2, CIVIL)), ObjectLine(FusedUpdate(d2, 80, CIVIL, 9)) >>,
      << ObjectLine(FusedUpdate(d1, 80, HOSTILE, 9)) >>,
      << ObjectLine(Spawned(d1, HOSTILE)), InvalidLine, BlankLine,
         ObjectLine(ThreatUpdate(d1, 10)) >>,
      << ObjectLine(Spawned(d1, HOSTILE)), OtherLine,
         ObjectLine(FusedUpdate(d1, 80, HOSTILE, 9)) >> }

InitMain ==
    /\ TunerOff
    /\ ElsewhereIdle
    /\ epc = "main"
    /\ events = <<>>
    /\ predictions = None
    /\ evalMetrics = None
    /\ call = None
    /\ ret = None
    /\ roc_pr_data = None
    /\ \E n \in 0..MaxFiles :
       \E dirs \in [ 1..n -> LogDirs ], lines \in [ 1..n -> LogContents ] :
          log_files = [ i \in 1..n |->
                          [ dirs |-> dirs[i], name |-> FileName(i), lines |-> lines[i] ] ]
    /\ fileIdx = 0
    /\ results = <<>>
    /\ rocPrFiles = <<>>

\* The variables main() leaves alone: those of run_auto_tune except the
\* metrics file and the dictionary read from it, and the evaluator's
\* variables for a single file or call.
besideMain == << pc, trials, seed, rng, trial, params, score, history,
                 best_score, best_params, best_metrics, paramFile,
                 historyFile, bestFile, raised, lastEval, nSampled, nEvaluated,
                 nSucceeded, nSaveCalls, savedLen, metricsOfTrial, space,
                 events, predictions, evalMetrics, call, ret, roc_pr_data,
                 elsewhere >>

\* Lines 480-505: without log files main returns; otherwise the label
\* distribution of the first three files is printed, for which they are
\* loaded.
StartMain ==
    /\ epc = "main"
    /\ IF log_files = <<>>
       THEN epc' = "nolog"
       ELSE IF \E i \in DOMAIN log_files :
                  i <= 3 /\ GetRaises(LoadLogEvents(log_files[i].lines))
       THEN epc' = "raised"
       ELSE epc' = "files"
    /\ fileIdx' = 1
    /\ UNCHANGED << besideMain, metrics, metricsFile, log_files, results, rocPrFiles >>

\* Lines 507-588: one turn of the loop over log_files.
ProcessLogFile ==
    /\ epc = "files"
    /\ fileIdx <= Len(log_files)
    /\ LET f == log_files[fileIdx]
           preds == PredictionsOfFile(f.lines)
       IN  IF IsNone(KeyOf(f))
           THEN /\ fileIdx' = fileIdx + 1
                /\ UNCHANGED << epc, results >>
           ELSE IF GetRaises(LoadLogEvents(f.lines))
           THEN /\ epc' = "raised"
                /\ UNCHANGED << fileIdx, results >>
           ELSE IF preds = <<>>
           THEN /\ fileIdx' = fileIdx + 1
                /\ UNCHANGED << epc, results >>
           ELSE /\ results' = Accumulate(results, The(KeyOf(f)), preds,
                                         ComputeRocPrData(preds, HOSTILE))
                /\ fileIdx' = fileIdx + 1
                /\ UNCHANGED epc
    /\ UNCHANGED << besideMain, metrics, metricsFile, log_files, rocPrFiles >>

\* Lines 590-613: the final metrics of every key, the report, the curve
\* data and metrics.json.
FinishMain ==
    /\ epc = "files"
    /\ fileIdx > Len(log_files)
    /\ rocPrFiles' = [ k \in DOMAIN SavedRocPr(results) |->
                         results[SavedRocPr(results)[k]].roc_pr_data ]
    /\ metricsFile' = MetricsJson(results)
    /\ epc' = "written"
    /\ UNCHANGED << besideMain, metrics, log_files, fileIdx, results >>

\* auto_tune.py, line 182: run_analysis reads the artifact back with
\* parse_metrics_from_report().
ReadReport ==
    /\ epc = "written"
    /\ metrics' = ParseMetricsFromReport(metricsFile)
    /\ epc' = "read"
    /\ UNCHANGED << besideMain, metricsFile, dirVars >>

NextMain ==
    \/ StartMain
    \/ ProcessLogFile
    \/ FinishMain
    \/ ReadReport

SpecMain == InitMain /\ [][NextMain]_vars

(***************************************************************************)
(* run_evaluation.py: run_evaluation_mode, setup_mode_config and           *)
(* restore_config.  runtime_params.json is paramFile, its backup is        *)
(* backupFile and auto_tune_best_config.json is bestFile.                  *)
(***************************************************************************)
EvaluationModes == { "baseline", "fusion_default", "fusion_tuned" }

\* How the try block of run_evaluation_mode (lines 109-159) can end: the
\* simulator exits with 0 and the logs are copied, it exits with another
\* code, it exceeds the timeout, or anything in the block raises.
EvaluationOutcomes == { "ok", "nonzero", "timeout", "error" }

\* Line 107
TargetMode(m) == IF m = "baseline" THEN "BASELINE" ELSE "FUSION"

\* What the two files can hold when run_evaluation_mode is called.
ParamFiles == { None, File(SampleParams(0)), File(SampleParams(1)) }

\* The tuner and the evaluator are not running; the configuration and results
\* directories hold what earlier runs left.
InitMode ==
    /\ pc = "loop"
    /\ trials = 0
    /\ seed = 1
    /\ rng = SeedRng(seed)
    /\ trial = 0
    /\ params = None
    /\ metrics = <<>>
    /\ score = None
    /\ history = <<>>
    /\ best_score = None
    /\ best_params = None
    /\ best_metrics = None
    /\ paramFile \in ParamFiles
    /\ metricsFile = None
    /\ historyFile = None
    /\ bestFile \in { None, StaleBestFile }
    /\ raised = None
    /\ lastEval = None
    /\ nSampled = 0
    /\ nEvaluated = 0
    /\ nSucceeded = 0
    /\ nSaveCalls = 0
    /\ savedLen = 0
    /\ metricsOfTrial = FALSE
    /\ space = ParamSpace
    /\ EvaluatorIdle
    /\ backupFile \in ParamFiles
    /\ mpc = "call"
    /\ mode \in EvaluationModes
    /\ modeRet = None
    /\ paramBefore = paramFile
    /\ ClientIdle
    /\ ServerIdle

\* What run_evaluation_mode leaves alone.
besideMode == << pc, trials, seed, rng, trial, params, metrics, score, history,
                 best_score, best_params, best_metrics, metricsFile,
                 historyFile, raised, lastEval, nSampled, nEvaluated,
                 nSucceeded, nSaveCalls, savedLen, metricsOfTrial, space,
                 epc, events, predictions, evalMetrics, call, ret, mainVars,
                 clientVars, serverVars >>

\* Lines 39-50: the parameter file and the backup file after setup_mode_config
\* in mode 'baseline' or 'fusion_default'.
HiddenParamFile(param, backup) == IF IsNone(param) THEN << param, backup >> ELSE << None, param >>

\* restore_config, lines 72-80: the parameter file and the backup file after it.
RestoredParamFile(param, backup) == IF ~ IsNone(backup) /\ IsNone(param) THEN << backup, None >> ELSE << param, backup >>

\* Lines 98-100 with setup_mode_config, lines 26-70.  The call is made before
\* the try block: when it returns False, run_evaluation_mode returns False
\* without restore_config.
SetupModeConfig ==
    /\ mpc = "call"
    /\ IF mode \in { "baseline", "fusion_default" }
       THEN /\ paramFile' = HiddenParamFile(paramFile, backupFile)[1]
            /\ backupFile' = HiddenParamFile(paramFile, backupFile)[2]
            /\ mpc' = "evaluating"
            /\ UNCHANGED modeRet
       ELSE IF ~ IsNone(backupFile)
       THEN /\ paramFile' = backupFile
            /\ backupFile' = None
            /\ mpc' = "evaluating"
            /\ UNCHANGED modeRet
       ELSE IF ~ IsNone(paramFile)
       THEN /\ mpc' = "evaluating"
            /\ UNCHANGED << paramFile, backupFile, modeRet >>
       ELSE IF ~ IsNone(bestFile)
       THEN /\ paramFile' = File(The(bestFile).data.best_params)
            /\ mpc' = "evaluating"
            /\ UNCHANGED << backupFile, modeRet >>
       ELSE /\ modeRet' = Some(FALSE)
            /\ mpc' = "returned"
            /\ UNCHANGED << paramFile, backupFile >>
    /\ UNCHANGED << besideMode, bestFile, mode, paramBefore >>

\* Lines 109-159: the simulator runs with --mode TargetMode(mode) and the try
\* block ends; the value to return is kept until the finally clause is done.
EvaluationEnds ==
    /\ mpc = "evaluating"
    /\ \E o \in EvaluationOutcomes :
          modeRet' = Some(o = "ok")
    /\ mpc' = "finally"
    /\ UNCHANGED << besideMode, paramFile, backupFile, bestFile, mode, paramBefore >>

\* Lines 160-162: the finally clause calls restore_config, then the function
\* returns.
RestoreConfig ==
    /\ mpc = "finally"
    /\ paramFile' = RestoredParamFile(paramFile, backupFile)[1]
    /\ backupFile' = RestoredParamFile(paramFile, backupFile)[2]
    /\ mpc' = "returned"
    /\ UNCHANGED << besideMode, bestFile, mode, modeRet, paramBefore >>

NextMode ==
    \/ SetupModeConfig
    \/ EvaluationEnds
    \/ RestoreConfig

SpecMode == InitMode /\ [][NextMode]_vars


(***************************************************************************)
(* sim_bridge/websocket_client.py: C2WebSocketClient.  The methods are     *)
(* coroutines of one asyncio event loop: a task runs alone from one await  *)
(* to the next, so each action is the code between two awaits.             *)
(***************************************************************************)
MaxConnects == 2

\* Line 102-111, from the top of the loop to the next await: the position
\* the run_with_reconnect task stops at.
LoopTop(isRunning, isConnected) == IF ~ isRunning THEN "exited" ELSE IF ~ isConnected THEN "connecting" ELSE "sleep"

\* sim_bridge/main.py, line 219: the bridge has created the task of
\* run_with_reconnect on a new client.
InitClient ==
    /\ TunerOff
    /\ EvaluatorIdle
    /\ ModeIdle
    /\ ClientNew
    /\ rpc = "created"
    /\ ServerIdle

besideClient == << tunerVars, epc, events, predictions, evalMetrics, call, ret,
                   mainVars, modeVars, serverVars >>

\* Lines 100-104 and 36-38: the task starts, sets running and goes to the
\* top of the loop; a client that is not connected calls connect(), which
\* waits in websockets.connect.
RunWithReconnect ==
    /\ rpc = "created"
    /\ running' = TRUE
    /\ rpc' = LoopTop(TRUE, connected)
    /\ UNCHANGED << besideClient, connected, ws, conns, receiving, spc, closing,
                    nOpened, openedAtStop >>

\* Lines 38-45 and 105-111: websockets.connect returns a new connection;
\* connect() stores it, sets connected, starts its _receive_loop and returns
\* True, and the loop goes to sleep for a second.
ConnectSucceeds ==
    /\ rpc = "connecting"
    /\ nOpened < MaxConnects
    /\ nOpened' = nOpened + 1
    /\ ws' = Some(nOpened')
    /\ conns' = conns \cup { nOpened' }
    /\ receiving' = receiving \cup { nOpened' }
    /\ connected' = TRUE
    /\ rpc' = "sleep"
    /\ UNCHANGED << besideClient, running, spc, closing, openedAtStop >>

\* Lines 47-50 and 105-107: websockets.connect raises; connect() returns
\* False and the loop sleeps for reconnect_interval.
ConnectFails ==
    /\ rpc = "connecting"
    /\ connected' = FALSE
    /\ rpc' = "retry"
    /\ UNCHANGED << besideClient, running, ws, conns, receiving, spc, closing,
                    nOpened, openedAtStop >>

\* Lines 107-108 and 111: a sleep ends and the loop is back at its top.
Wake ==
    /\ rpc \in { "retry", "sleep" }
    /\ rpc' = LoopTop(running, connected)
    /\ UNCHANGED << besideClient, running, connected, ws, conns, receiving, spc,
                    closing, nOpened, openedAtStop >>

\* The C2 server closes a connection.
ServerCloses ==
    /\ \E c \in conns :
          conns' = conns \ { c }
    /\ UNCHANGED << besideClient, running, connected, ws, receiving, rpc, spc,
                    closing, nOpened, openedAtStop >>

\* Lines 52-69: the _receive_loop of a closed connection ends.  The iteration
\* over the connection ends silently after a normal closure and raises
\* ConnectionClosed otherwise, and only then is connected reset.
ReceiveLoopEnds ==
    /\ \E c \in receiving \ conns :
          receiving' = receiving \ { c }
    /\ \E normal \in BOOLEAN :
          connected' = IF normal THEN connected ELSE FALSE
    /\ UNCHANGED << besideClient, running, ws, conns, rpc, spc, closing, nOpened,
                    openedAtStop >>

\* Lines 81-91: send_telemetry on a connected client; a failed send resets
\* connected.
SendTelemetry ==
    /\ connected
    /\ ~ IsNone(ws)
    /\ \E delivered \in BOOLEAN :
          connected' = delivered
    /\ UNCHANGED << besideClient, running, ws, conns, receiving, rpc, spc, closing,
                    nOpened, openedAtStop >>

\* Lines 115-119 (sim_bridge/main.py, line 246, calls it once the task of
\* run_with_reconnect has started): stop() resets both flags and, if there is
\* a connection, waits for its close().
Stop ==
    /\ spc = "idle"
    /\ rpc # "created"
    /\ running' = FALSE
    /\ connected' = FALSE
    /\ closing' = ws
    /\ spc' = IF IsNone(ws) THEN "done" ELSE "closing"
    /\ openedAtStop' = nOpened
    /\ UNCHANGED << besideClient, ws, conns, receiving, rpc, nOpened >>

\* Lines 119-120: the close() stop() waits for is done.
StopClosed ==
    /\ spc = "closing"
    /\ conns' = conns \ { The(closing) }
    /\ closing' = None
    /\ spc' = "done"
    /\ UNCHANGED << besideClient, running, connected, ws, receiving, rpc, nOpened,
                    openedAtStop >>

NextClient ==
    \/ RunWithReconnect
    \/ ConnectSucceeds
    \/ ConnectFails
    \/ Wake
    \/ ServerCloses
    \/ ReceiveLoopEnds
    \/ SendTelemetry
    \/ Stop
    \/ StopClosed

SpecClient == InitClient /\ [][NextClient]_vars


(***************************************************************************)
(* airsim-bridge/src/bridge_server.py: AirSimBridgeServer.  A message is   *)
(* what json.loads makes of it: json is "invalid" for text that is not     *)
(* JSON, "undecodable" for a binary frame that is not UTF-8, and otherwise *)
(* the type of the value.  The fields jsonrpc, method, id and params are   *)
(* the members of an object (None if missing); has_jsonrpc says whether    *)
(* 'jsonrpc' is an element of a list, or a substring of a string.          *)
(***************************************************************************)
MaxMessages == 2

\* Lines 81-96: the methods routed to the AirSim wrapper.
AirSimMethods ==
    { "spawnDrone", "removeDrone", "updateDrone", "getDroneState", "scanRadar",
      "detectAudio", "detectEO", "reset" }

Message(j, v, m, i, p, h) ==
    [ json |-> j, jsonrpc |-> v, method |-> m, id |-> i, params |-> p, has_jsonrpc |-> h ]

ObjectMessages ==
    { Message("object", v, m, i, p, FALSE) :
        v \in { None, Some("2.0"), Some("1.0") },
        m \in { None, Some("spawnDrone"), Some("reset"), Some("ping"), Some("fly") },
        i \in { None, Some(1) },
        p \in { "object", "list" } }

OtherMessages ==
    { Message(j, None, None, None, "object", FALSE) :
        j \in { "invalid", "undecodable", "number", "null", "bool", "list", "string" } }
    \cup { Message(j, None, None, None, "object", TRUE) : j \in { "list", "string" } }

Messages == ObjectMessages \cup OtherMessages

\* The JSON-RPC error codes of lines 71 and 74, 100, 105 and 110.
INVALID_REQUEST == -32600
METHOD_NOT_FOUND == -32601
PARSE_ERROR == -32700
INTERNAL_ERROR == -32603

\* Lines 114-120
SuccessResponse(request_id) == [ jsonrpc |-> "2.0", member |-> "result", code |-> 0, id |-> request_id ]

\* Lines 122-131
ErrorResponse(request_id, c) == [ jsonrpc |-> "2.0", member |-> "error", code |-> c, id |-> request_id ]

Returns(response) == [ raised |-> FALSE, response |-> Some(response) ]
Raises == [ raised |-> TRUE, response |-> None ]

\* `'jsonrpc' in data`: membership in an object's keys, a list's elements or
\* a string's substrings.
HasJsonrpc(data) == IF data.json = "object" THEN ~ IsNone(data.jsonrpc) ELSE data.has_jsonrpc

\* Lines 76-102: the routing of a request whose jsonrpc is '2.0' and that has
\* a method; handlerRaises says whether the AirSim wrapper raises.
Route(data, handlerRaises) ==
    IF The(data.method) \in AirSimMethods
    THEN IF handlerRaises THEN Raises ELSE Returns(SuccessResponse(data.id))
    ELSE IF The(data.method) = "ping"
    THEN IF data.params = "object" THEN Returns(SuccessResponse(data.id)) ELSE Raises
    ELSE Returns(ErrorResponse(data.id, METHOD_NOT_FOUND))

\* Lines 70-102, the try block after json.loads.  `in` raises TypeError on a
\* number, null or a boolean; data['jsonrpc'] raises TypeError on a list or a
\* string.
Validate(data, handlerRaises) ==
    IF data.json \in { "number", "null", "bool" } THEN Raises
    ELSE IF ~ HasJsonrpc(data) THEN Returns(ErrorResponse(None, INVALID_REQUEST))
    ELSE IF data.json # "object" THEN Raises
    ELSE IF data.jsonrpc # Some("2.0") THEN Returns(ErrorResponse(None, INVALID_REQUEST))
    ELSE IF IsNone(data.method) THEN Returns(ErrorResponse(data.id, INVALID_REQUEST))
    ELSE Route(data, handlerRaises)

\* Lines 106-112: the handler of `except Exception`.  With data bound it
\* calls data.get('id'), which only an object has: for any other value the
\* handler itself raises AttributeError, which leaves process_message.
InternalError(message) ==
    IF message.json = "undecodable" THEN Returns(ErrorResponse(None, INTERNAL_ERROR))
    ELSE IF message.json = "object" THEN Returns(ErrorResponse(message.id, INTERNAL_ERROR))
    ELSE Raises

\* process_message, lines 64-112
ProcessMessage(message, handlerRaises) ==
    IF message.json = "invalid" THEN Returns(ErrorResponse(None, PARSE_ERROR))
    ELSE IF message.json = "undecodable" THEN InternalError(message)
    ELSE IF Validate(message, handlerRaises).raised THEN InternalError(message)
    ELSE Validate(message, handlerRaises)

\* Line 43: a client has connected and sends up to MaxMessages messages.
InitServer ==
    /\ TunerOff
    /\ EvaluatorIdle
    /\ ModeIdle
    /\ ClientIdle
    /\ \E n \in 0..MaxMessages :
          inbox \in [ 1..n -> Messages ]
    /\ sent = <<>>
    /\ nRead = 0
    /\ hpc = "accepted"
    /\ connected_clients = {}

besideServer == << tunerVars, epc, events, predictions, evalMetrics, call, ret,
                   mainVars, modeVars, clientVars >>

\* Lines 49-51
HandleClient ==
    /\ hpc = "accepted"
    /\ connected_clients' = connected_clients \cup { "websocket" }
    /\ hpc' = "serving"
    /\ UNCHANGED << besideServer, inbox, sent, nRead >>

\* Lines 54-56 and 59-62: one turn of the loop.  The response of
\* process_message is sent; an exception that leaves process_message ends the
\* loop in `except Exception`, and the handler returns.
ServeMessage ==
    /\ hpc = "serving"
    /\ inbox # <<>>
    /\ nRead' = nRead + 1
    /\ inbox' = Tail(inbox)
    /\ \E handlerRaises \in BOOLEAN :
          LET outcome == ProcessMessage(Head(inbox), handlerRaises)
          IN  IF outcome.raised
              THEN /\ hpc' = "failed"
                   /\ connected_clients' = connected_clients \ { "websocket" }
                   /\ UNCHANGED sent
              ELSE /\ sent' = Append(sent, The(outcome.response))
                   /\ UNCHANGED << hpc, connected_clients >>
    /\ UNCHANGED besideServer

\* Lines 54, 57-58 and 61-62: the client closes the connection after its last
\* message was answered; the loop ends and the handler returns.
ClientCloses ==
    /\ hpc = "serving"
    /\ inbox = <<>>
    /\ hpc' = "closed"
    /\ connected_clients' = connected_clients \ { "websocket" }
    /\ UNCHANGED << besideServer, inbox, sent, nRead >>

NextServer ==
    \/ HandleClient
    \/ ServeMessage
    \/ ClientCloses

SpecServer == InitServer /\ [][NextServer]_vars


(***************************************************************************)
(* Properties of run_auto_tune                                             *)
(***************************************************************************)

RECURSIVE MaxScore(_)
MaxScore(h) ==
    IF Len(h) = 1 THEN h[1].score
    ELSE LET m == MaxScore(SubSeq(h, 1, Len(h) - 1))
         IN  IF h[Len(h)].score > m THEN h[Len(h)].score ELSE m

\* The first record of h that attains the maximum score.
EarliestMax(h) ==
    h[CHOOSE i \in 1..Len(h) :
          /\ h[i].score = MaxScore(h)
          /\ \A j \in 1..(i - 1) : h[j].score < MaxScore(h)]

\* Between the best update (line 321) and the append (line 328) the record
\* of the running trial is not in history yet.
BetweenBestAndAppend == pc = "record"

\* C1: at every point outside the window between the best update and the
\* append, and so after any number of completed iterations with any mix of
\* successful and failed trials, best_score is the maximum score over
\* history, and best_params and best_metrics are None exactly when history
\* is empty (best_score is then still -inf).
C1_BestTracking ==
    ~ BetweenBestAndAppend =>
        /\ (history = <<>>) <=> IsNone(best_params)
        /\ (history = <<>>) <=> IsNone(best_metrics)
        /\ (history = <<>>) <=> IsNone(best_score)
        /\ history # <<>> => The(best_score) = MaxScore(history)

\* C1 witness: two trials recorded and one failed, and the best is not the
\* latest record.
C1_Witness ==
    /\ pc = "loop"
    /\ Len(history) = 2
    /\ trial = 3
    /\ The(best_score) = history[1].score
    /\ history[2].score < history[1].score

\* C10: the best triple is that of the earliest history record attaining
\* the maximum score: score, params and metrics all come from that one
\* record (outside the window between the best update and the append).
C10_EarliestMaxKept ==
    (~ BetweenBestAndAppend /\ history # <<>>) =>
        /\ best_score = Some(EarliestMax(history).score)
        /\ best_params = Some(EarliestMax(history).params)
        /\ best_metrics = Some(EarliestMax(history).metrics)

\* C10 witness: the maximum is attained twice, by records with different
\* params and different metrics, and the best is the earlier of the two.
C10_Witness ==
    /\ pc = "loop"
    /\ Len(history) = 3
    /\ history[1].score < history[2].score
    /\ history[2].score = history[3].score
    /\ history[2].params # history[3].params
    /\ history[2].metrics # history[3].metrics
    /\ best_params = Some(history[2].params)

\* A trial is given up: run_evaluation returned False or run_analysis
\* returned {}.
TrialFails ==
    \/ pc = "evaluate" /\ lastEval' # Some("ok")
    \/ pc = "analysis" /\ DOMAIN metrics' = {}

\* C2: a trial whose evaluation exits non-zero, times out or errs, or whose
\* analysis yields no metrics, is given up in one and the same way: nothing
\* is appended to history, the best record stays, nothing is sampled again
\* and the loop goes on with the next index; so between iterations
\* len(history) is the number of trials that succeeded.
C2_FailedTrialSkipped ==
    /\ [](pc \in {"loop", "done"} => Len(history) = nSucceeded)
    /\ [][TrialFails =>
            /\ pc' = "loop"
            /\ trial' = trial + 1
            /\ history' = history
            /\ << best_score, best_params, best_metrics >>' =
                  << best_score, best_params, best_metrics >>
            /\ << rng, nSampled, nEvaluated >>' = << rng, nSampled, nEvaluated + (IF pc = "evaluate" THEN 1 ELSE 0) >>
            /\ IsNone(paramFile')]_vars

\* C2 witness: three trials are over, one succeeded, the latest failed in
\* the analysis and another one failed before.
C2_Witness ==
    /\ pc = "loop"
    /\ trial = 3
    /\ Len(history) = 1
    /\ nSucceeded = 1
    /\ lastEval = Some("ok")
    /\ DOMAIN metrics = {}

\* C3 (as claimed): whenever a trial has ended -- the loop is between
\* iterations, the run has finished, or an error raised while scoring or
\* checkpointing has ended the run -- the runtime parameter file is absent.
C3_ParamFileRemoved ==
    ( \/ pc \in {"loop", "done"}
      \/ pc = "raised" /\ raised \in {Some("compute_objective_score"), Some("save_history")} )
    => IsNone(paramFile)

\* C4 (as claimed): at every point of a run at most CheckpointEvery history
\* records are missing from the last written checkpoint.
C4_BoundedLoss == Len(history) - savedLen <= CheckpointEvery

\* The content of a written history file agrees with history h and score bs.
HoldsHistory(file, h, bs) ==
    /\ ~ IsNone(file)
    /\ The(file).complete
    /\ The(file).data.total_trials = Len(h)
    /\ The(file).data.best_score = bs
    /\ Len(The(file).data.history) = Len(h)
    /\ \A i \in 1..Len(h) :
          LET e == The(file).data.history[i]
          IN  /\ e.trial = h[i].trial
              /\ e.params = h[i].params
              /\ e.score = h[i].score
              /\ { kv[1] : kv \in e.metrics } = { KeyStr(k) : k \in DOMAIN h[i].metrics }
              /\ \A k \in DOMAIN h[i].metrics : << KeyStr(k), h[i].metrics[k] >> \in e.metrics

\* C5: when run_auto_tune has returned, the history file holds exactly the
\* in-memory history (total_trials = len(history), every record) and the
\* final best score; total_trials is the number of successful trials, 0 for
\* a run in which every trial failed.
C5_FinalCheckpoint ==
    pc = "done" =>
        /\ HoldsHistory(historyFile, history, best_score)
        /\ The(historyFile).data.total_trials = nSucceeded
        /\ nSaveCalls >= 1

\* C5 witness: a finished run whose intermediate save came due, with
\* failed trials, and with records appended after the intermediate save.
C5_Witness ==
    /\ pc = "done"
    /\ nSaveCalls = 2
    /\ Len(history) > CheckpointEvery - 2
    /\ nSucceeded < trials
    /\ The(historyFile).data.total_trials = Len(history)

\* C6 (as claimed): whatever the outcomes of the trials (corrupt metrics
\* included), the run ends only after sampling exactly `trials` times and
\* attempting exactly `trials` evaluations, and never samples more.
C6_ExactlyNTrials ==
    /\ nSampled <= trials
    /\ ( \/ pc = "done"
         \/ pc = "raised" /\ raised = Some("compute_objective_score") )
       => nSampled = trials /\ nEvaluated = trials

\* Positions of a trial after its evaluation has returned True.
AfterEvaluation == {"analysis", "score", "update_best", "record", "checkpoint", "clear"}

\* C7: the steps of a trial come in the order sample, persist, evaluate,
\* analyse, score, record; while the evaluation or the analysis of a trial
\* runs, the parameter file holds that trial's parameters; the analysis
\* starts only after an evaluation that succeeded; and the next trial is
\* sampled only when every earlier trial has completed or failed.
C7_SequentialProtocol ==
    /\ [](/\ pc \in {"evaluate", "analysis"} => paramFile = File(The(params))
          /\ pc \in AfterEvaluation => lastEval = Some("ok") /\ nEvaluated = nSampled
          /\ pc \in {"save_params", "evaluate"} => nEvaluated = nSampled - 1
          /\ pc # "raised" => nSampled = trial + (IF pc \in {"loop", "done"} THEN 0 ELSE 1))
    /\ [][/\ pc' = "save_params" =>
                pc = "loop" /\ nSampled = trial /\ nSampled' = trial + 1
                /\ params' = Some(SampleParams(rng))
          /\ pc' = "evaluate" => pc = "save_params" /\ paramFile' = File(The(params))
          /\ pc' = "analysis" => pc = "evaluate" /\ lastEval' = Some("ok")
          /\ pc' = "score" => pc = "analysis"
          /\ pc' = "update_best" => pc = "score"
          /\ pc' = "record" => pc = "update_best"
          /\ pc' = "checkpoint" => pc = "record" /\ Len(history') = Len(history) + 1
          /\ pc' = "clear" => pc = "checkpoint"
          /\ pc' = "loop" => pc \in {"evaluate", "analysis", "clear"} /\ trial' = trial + 1
          /\ nSampled' # nSampled => pc = "loop"
          /\ (paramFile' # paramFile /\ ~ IsNone(paramFile')) => pc = "save_params"]_vars

\* C7 witness: the analysis of the second trial is running, the file holds
\* the second trial's parameters, which differ from the first trial's.
C7_Witness ==
    /\ pc = "analysis"
    /\ trial = 1
    /\ Len(history) = 1
    /\ paramFile = File(The(params))
    /\ The(params) # history[1].params

\* C8 (as claimed): no error raised while persisting the parameters or
\* computing the objective score leaves the loop and ends the run.
C8_NoTrialErrorEscapes ==
    raised \notin {Some("save_runtime_params"), Some("compute_objective_score")}

\* C9 (as claimed): a failed checkpoint write does not end the run while
\* trials remain: the controller goes on with the remaining trials.
C9_CheckpointErrorRecovered ==
    ~ (pc = "raised" /\ raised = Some("save_history") /\ trial + 1 < trials)

(***************************************************************************)
(* Properties of the analysis step                                         *)
(***************************************************************************)

\* C11 (as claimed): the metrics a trial scores and records were written by
\* that trial's own analysis; a metrics.json left by an earlier trial or an
\* earlier run is never read as the trial's result.
C11_MetricsOfOwnTrial ==
    pc \in {"score", "update_best", "record"} => metricsOfTrial

\* C12 (as claimed): whenever save_history is left, by returning or by an
\* error that cuts it short, the history file on disk is a complete
\* checkpoint (the previous one or the new one), never an empty or
\* partially written file.
C12_AtomicCheckpoint ==
    IsNone(historyFile) \/ The(historyFile).complete

\* The value the objective reads for a field of a key: 0 when the key or
\* the field is absent.
Reads(m, key, field) ==
    IF key \in DOMAIN m /\ field \in DOMAIN m[key].fields THEN m[key].fields[field] ELSE 0

\* The dictionary m with HOSTILE_f1 of all_hostile/FUSION raised by d.
RaisedF1(m, d) ==
    [ m EXCEPT ![key_all_hostile] =
        JsonObject(Put(@.fields, "HOSTILE_f1", Reads(m, key_all_hostile, "HOSTILE_f1") + d)) ]

\* Every dictionary parse_metrics_from_report can deliver from ScoreArtifacts
\* that compute_objective_score accepts.
ScoreUniverse ==
    { m \in { ParseMetricsFromReport(a) : a \in ScoreArtifacts } : ~ ScoreRaises(m) }

SameDesignatedValues(m1, m2) ==
    /\ Reads(m1, key_all_hostile, "HOSTILE_f1") = Reads(m2, key_all_hostile, "HOSTILE_f1")
    /\ Reads(m1, key_all_hostile, "accuracy") = Reads(m2, key_all_hostile, "accuracy")
    /\ Reads(m1, key_mixed_civil, "HOSTILE_f1") = Reads(m2, key_mixed_civil, "HOSTILE_f1")
    /\ Reads(m1, key_mixed_civil, "civil_fp_rate") = Reads(m2, key_mixed_civil, "civil_fp_rate")

Scored == pc = "update_best" /\ ~ IsNone(score)

\* C17: the objective score (hundredths, metric values in tenths) is
\* HOSTILE_f1(all_hostile,FUSION) + 0.3 * accuracy(all_hostile,FUSION)
\* + HOSTILE_f1(mixed_civil,FUSION) - 2.0 * civil_fp_rate(mixed_civil,FUSION)
\* with 0 for an absent key or field; any other dictionary with the same four
\* values has the same score; and raising HOSTILE_f1(all_hostile) by d
\* raises the score by exactly d.
C17_ObjectiveFunction ==
    Scored =>
        /\ The(score) = 10 * Reads(metrics, key_all_hostile, "HOSTILE_f1")
                         + 3 * Reads(metrics, key_all_hostile, "accuracy")
                         + 10 * Reads(metrics, key_mixed_civil, "HOSTILE_f1")
                         - 20 * Reads(metrics, key_mixed_civil, "civil_fp_rate")
        /\ \A m2 \in ScoreUniverse :
              SameDesignatedValues(metrics, m2) => ComputeObjectiveScore(m2) = The(score)
        /\ key_all_hostile \in DOMAIN metrics =>
              \A d \in 0..5 :
                 ComputeObjectiveScore(RaisedF1(metrics, d)) = The(score) + 10 * d

\* C17 witness: a score computed from a dictionary that has both designated
\* keys, lacks accuracy under all_hostile, and has a key and a field the
\* objective does not name.
C17_Witness ==
    /\ Scored
    /\ DOMAIN metrics = { key_all_hostile, key_mixed_civil, key_civil_only }
    /\ DOMAIN metrics[key_all_hostile].fields = { "HOSTILE_f1", "HOSTILE_recall" }
    /\ metrics[key_all_hostile].fields["HOSTILE_f1"] = 5
    /\ DOMAIN metrics[key_mixed_civil].fields = { "HOSTILE_f1", "civil_fp_rate" }
    /\ The(score) = 50 + 10 * metrics[key_mixed_civil].fields["HOSTILE_f1"]
                       - 20 * metrics[key_mixed_civil].fields["civil_fp_rate"]

(***************************************************************************)
(* Properties of sample_params                                             *)
(***************************************************************************)

\* The generator state one sample_params call leads to, for every state.
AfterOneSample == [ r \in 0..15 |-> RngAfterSample(r) ]

\* The generator state at the start of trial index i of a run with seed s,
\* if the generator is advanced by one sample per trial and by nothing else.
RECURSIVE RngAtTrial(_, _)
RngAtTrial(s, i) == IF i = 0 THEN SeedRng(s) ELSE AfterOneSample[RngAtTrial(s, i - 1)]

\* What sample_params returns, for every generator state.
SampleOf == [ r \in 0..15 |-> SampleParams(r) ]

\* What sample_params returns at trial index i of a run with seed s.
SampleAt(s, i) == SampleOf[RngAtTrial(s, i)]

InTrial ==
    pc \in { "save_params", "evaluate", "analysis", "score", "update_best", "record",
             "checkpoint", "clear" }

\* C18: the ParameterSet sampled at trial index i is determined by the seed
\* and i alone, whatever the outcomes of the earlier trials (so two runs
\* with the same seed sample the same ParameterSet at every index): the
\* shared generator has been advanced by exactly one sample per trial begun.
C18_ReproducibleSampling ==
    /\ trial <= nSampled
    /\ rng = RngAtTrial(seed, nSampled)
    /\ InTrial => nSampled = trial + 1 /\ params = Some(SampleAt(seed, trial))
    /\ pc = "loop" => nSampled = trial
    /\ \A i \in DOMAIN history : history[i].params = SampleAt(seed, history[i].trial - 1)

\* C18 witness: the third trial has sampled after one failed and one
\* successful trial, and its ParameterSet differs from both earlier ones.
C18_Witness ==
    /\ pc = "save_params"
    /\ trial = 2
    /\ Len(history) = 1
    /\ params = Some(SampleAt(seed, 2))
    /\ SampleAt(seed, 2) # SampleAt(seed, 1)
    /\ SampleAt(seed, 2) # SampleAt(seed, 0)

\* The weights of a group are fractions over one positive denominator whose
\* numerators add up to it: their sum is 1.
SumsToOne(w) ==
    /\ DOMAIN w = { WeightNames[i] : i \in DOMAIN WeightNames }
    /\ \E total \in { w[WeightNames[1]][2] } :
          /\ total > 0
          /\ \A k \in DOMAIN w : w[k][2] = total
          /\ SumWeights([ k \in DOMAIN w |-> w[k][1] ], Len(WeightNames)) = total

\* C19: the threat_weights of every sampled ParameterSet sum to 1, and so do
\* the threat_weights stored in a completely written parameter file.
C19_NormalizedWeights ==
    /\ ~ IsNone(params) => SumsToOne(The(params).threat_weights)
    /\ (~ IsNone(paramFile) /\ The(paramFile).complete) =>
          SumsToOne(The(paramFile).data.threat_weights)

\* C19 witness: the parameter file of the second trial is on disk and holds
\* the sampled weights, whose raw sum was not 1.
C19_Witness ==
    /\ pc = "evaluate"
    /\ trial = 1
    /\ paramFile = File(The(params))
    /\ The(paramFile).data.threat_weights["existence"][2] # 1000
    /\ The(paramFile).data.threat_weights["existence"][1]
          # The(paramFile).data.threat_weights["existence"][2]

\* C20 (as claimed): with a parameter space that has a range with min > max
\* the run stops with a configuration error before the first trial: nothing
\* is sampled, no parameter file is written and no evaluation is invoked.
C20_MalformedSpaceRejected ==
    Malformed(space) => nSampled = 0 /\ IsNone(paramFile) /\ nEvaluated = 0

(***************************************************************************)
(* Properties of the evaluator                                             *)
(***************************************************************************)

\* The call of compute_pred_label has returned.
Returned == epc = "returned" /\ ~ IsNone(call) /\ ~ IsNone(ret)

\* Priority 1 of the decision rule fires for the arguments of the call.
ThreatFires ==
    /\ ~ IsNone(The(call).threat_score)
    /\ The(The(call).threat_score) >= The(call).threat_threshold

ConfidenceReached ==
    /\ ~ IsNone(The(call).class_confidence)
    /\ The(The(call).class_confidence) >= The(call).class_confidence_threshold

\* classification equals CIVIL case-insensitively
IsCivilIgnoringCase ==
    /\ ~ IsNone(The(call).classification)
    /\ Upper(The(The(call).classification)) = CIVIL

\* classification equals CIVIL case-insensitively once the whitespace
\* around it is removed
IsCivilIgnoringCaseAndPadding ==
    /\ ~ IsNone(The(call).classification)
    /\ Upper(Strip(The(The(call).classification))) = CIVIL

\* C13 (as claimed): compute_pred_label returns HOSTILE whenever the threat
\* score is present and >= the threshold; otherwise CIVIL exactly when the
\* classification equals CIVIL case-insensitively and the confidence is >=
\* its threshold; otherwise UNKNOWN.
C13_DecisionRuleAsClaimed ==
    Returned =>
        /\ ThreatFires => The(ret) = HOSTILE
        /\ ~ ThreatFires =>
              /\ The(ret) = CIVIL <=> (IsCivilIgnoringCase /\ ConfidenceReached)
              /\ The(ret) # CIVIL => The(ret) = UNKNOWN

\* C13 (amended): compute_pred_label returns HOSTILE whenever the threat
\* score is present and >= the threshold, whatever the classification and
\* the confidence; otherwise CIVIL exactly when the classification, with
\* surrounding whitespace removed, equals CIVIL case-insensitively and the
\* confidence is present and >= its threshold; otherwise UNKNOWN.
C13_DecisionRule ==
    Returned =>
        /\ ThreatFires => The(ret) = HOSTILE
        /\ ~ ThreatFires =>
              /\ The(ret) = CIVIL <=> (IsCivilIgnoringCaseAndPadding /\ ConfidenceReached)
              /\ The(ret) # CIVIL => The(ret) = UNKNOWN

\* C13 witness: the call returned HOSTILE for a threat score equal to the
\* threshold although the classification is CIVIL with enough confidence.
C13_Witness ==
    /\ Returned
    /\ The(call).threat_score = Some(The(call).threat_threshold)
    /\ IsCivilIgnoringCase
    /\ ConfidenceReached
    /\ The(ret) = HOSTILE

\* The drone has a spawn event with a recognized label somewhere in the file.
HasRecognizedLabel(drone_id) ==
    \E k \in DOMAIN events :
        /\ events[k].event = "drone_spawned"
        /\ events[k].drone_id = Some(drone_id)
        /\ ~ IsNone(events[k].true_label)
        /\ Upper(Strip(The(events[k].true_label))) \in { HOSTILE, CIVIL, UNKNOWN }

\* The i-th event of the file is an update event of a labeled drone.
Qualifies(i) ==
    /\ events[i].event \in { "fused_track_update", "threat_score_update" }
    /\ ~ IsNone(events[i].drone_id)
    /\ HasRecognizedLabel(The(events[i].drone_id))

Extracted == ~ IsNone(predictions)

\* C14: extract_predictions_from_log emits exactly one Prediction for each
\* update event (fused_track_update or threat_score_update) of a drone with
\* a recognized spawn label, in file order and without per-drone
\* deduplication, and none for any other event or drone.
C14_OnePredictionPerEvent ==
    Extracted =>
        LET ps == The(predictions)
        IN  /\ Len(ps) = Cardinality({ i \in DOMAIN events : Qualifies(i) })
            /\ \A j \in DOMAIN ps :
                  /\ ps[j].timestamp \in DOMAIN events
                  /\ Qualifies(ps[j].timestamp)
                  /\ ps[j].drone_id = The(events[ps[j].timestamp].drone_id)
            /\ \A j \in 1..(Len(ps) - 1) : ps[j].timestamp < ps[j + 1].timestamp

\* C14 witness: a labeled drone with two update events, one of each kind,
\* got two Predictions.
C14_Witness ==
    /\ Extracted
    /\ Len(The(predictions)) = 2
    /\ The(predictions)[1].drone_id = The(predictions)[2].drone_id
    /\ \E j \in 1..2 :
          events[The(predictions)[j].timestamp].event = "threat_score_update"
    /\ \E j \in 1..2 :
          events[The(predictions)[j].timestamp].event = "fused_track_update"

Measured == epc = "done" /\ ~ IsNone(evalMetrics)

\* C15 (as claimed): for the Predictions extracted from a log, the metrics
\* satisfy sum over HOSTILE, CIVIL, UNKNOWN of (TP + FN) = total_predictions,
\* correct + incorrect = total_predictions, and correct is the sum of the
\* three TP counts.
C15_ConfusionMatrixIdentity ==
    Measured =>
        LET m == The(evalMetrics)
        IN  /\ m.HOSTILE_TP + m.HOSTILE_FN + m.CIVIL_TP + m.CIVIL_FN
                 + m.UNKNOWN_TP + m.UNKNOWN_FN = m.total_predictions
            /\ m.correct + m.incorrect = m.total_predictions
            /\ m.correct = m.HOSTILE_TP + m.CIVIL_TP + m.UNKNOWN_TP

SaveHistoryReturned == pc = "done" \/ (pc = "clear" /\ CheckpointDue(trial))

\* C26: after every call of save_history, the best-config file and the
\* history file have both been overwritten from the same in-memory state, so
\* the best_score stored in the best-config file equals the best_score stored
\* in the history file, also when no trial has succeeded yet and a
\* best-config file of an earlier run exists.
C26_SameCheckpoint ==
    SaveHistoryReturned =>
        /\ ~ IsNone(historyFile)
        /\ ~ IsNone(bestFile)
        /\ The(bestFile).data.best_score = The(historyFile).data.best_score


(***************************************************************************)
(* Properties of the true label of a Prediction                            *)
(***************************************************************************)

\* The label the drone's spawn events give it: that of the last
\* drone_spawned event of the drone with a recognized label.
SpawnLabel(drone_id) ==
    LET spawns == { k \in DOMAIN events :
                      /\ events[k].event = "drone_spawned"
                      /\ events[k].drone_id = Some(drone_id)
                      /\ ~ IsNone(events[k].true_label)
                      /\ Upper(Strip(The(events[k].true_label)))
                            \in { HOSTILE, CIVIL, UNKNOWN } }
        last == CHOOSE k \in spawns : \A x \in spawns : x <= k
    IN  Upper(Strip(The(events[last].true_label)))

\* The event carries a true_label of its own.
CarriesLabel(e) == ~ IsNone(e.true_label) /\ The(e.true_label) # <<>>

\* C25 (as claimed): when an update event, of either kind, carries its own
\* true_label, that label is the true label of the Prediction emitted for
\* that event, and every other Prediction of the drone has the spawn-derived
\* label.
C25_OverrideAsClaimed ==
    Extracted =>
        \A j \in DOMAIN The(predictions) :
            LET p == The(predictions)[j]
                e == events[p.timestamp]
            IN  p.true_label = IF CarriesLabel(e)
                               THEN The(e.true_label)
                               ELSE SpawnLabel(p.drone_id)

\* C25 (amended): when a fused_track_update event carries its own true_label,
\* that label is the true label of the Prediction emitted for that event
\* only; every other Prediction of the same drone, earlier or later in the
\* file (that of a threat_score_update carrying a label included), has the
\* spawn-derived label.
C25_OverrideIsLocal ==
    Extracted =>
        \A j \in DOMAIN The(predictions) :
            LET p == The(predictions)[j]
                e == events[p.timestamp]
            IN  p.true_label = IF e.event = "fused_track_update" /\ CarriesLabel(e)
                               THEN The(e.true_label)
                               ELSE SpawnLabel(p.drone_id)

\* C25 witness: a drone spawned HOSTILE has a fused_track_update carrying
\* another label and then a later update without one; the first Prediction
\* has the carried label and the second the spawn label.
C25_Witness ==
    /\ Extracted
    /\ Len(The(predictions)) = 2
    /\ The(predictions)[1].drone_id = The(predictions)[2].drone_id
    /\ CarriesLabel(events[The(predictions)[1].timestamp])
    /\ ~ CarriesLabel(events[The(predictions)[2].timestamp])
    /\ The(predictions)[1].true_label = FRIENDLY
    /\ The(predictions)[2].true_label = HOSTILE


(***************************************************************************)
(* Properties of compute_roc_pr_data                                       *)
(***************************************************************************)
Swept == epc = "curves" /\ ~ IsNone(roc_pr_data)

\* The Predictions of the file that have a threat score.
WithScore == { j \in DOMAIN The(predictions) : ~ IsNone(The(predictions)[j].threat_score) }

\* Those at or above the threshold by their raw threat score.
AtOrAbove(t) == { j \in WithScore : The(The(predictions)[j].threat_score) >= t }

TrulyHostile == { j \in WithScore : The(predictions)[j].true_label = HOSTILE }

\* The fraction x is the quotient n / d, or 0 when d is 0.
IsRate(x, n, d) == x[2] > 0 /\ (IF d = 0 THEN x[1] = 0 ELSE x[1] * d = n * x[2])

AtMost(x, y) == x[1] * y[2] <= y[1] * x[2]

\* C23: for Predictions of which some have a threat score,
\* compute_roc_pr_data emits exactly one ROC point and one PR point per
\* threshold 0, 5, ..., 100 in increasing threshold order, computed from the
\* raw threat_score only (HOSTILE iff threat_score >= threshold, whatever the
\* stored pred_label), and TPR and FPR do not increase with the threshold.
C23_ThresholdSweep ==
    (Swept /\ WithScore # {}) =>
        LET roc == The(roc_pr_data).roc_points
            pr == The(roc_pr_data).pr_points
        IN  /\ Len(roc) = 21
            /\ Len(pr) = 21
            /\ \A i \in 1..21 :
                  LET t == 5 * (i - 1)
                      tp == Cardinality(AtOrAbove(t) \cap TrulyHostile)
                      fp == Cardinality(AtOrAbove(t) \ TrulyHostile)
                  IN  /\ roc[i].threshold = t
                      /\ pr[i].threshold = t
                      /\ IsRate(roc[i].tpr, tp, Cardinality(TrulyHostile))
                      /\ IsRate(roc[i].fpr, fp, Cardinality(WithScore \ TrulyHostile))
                      /\ IsRate(pr[i].precision, tp, tp + fp)
                      /\ pr[i].recall = roc[i].tpr
            /\ \A i \in 1..20 :
                  /\ AtMost(roc[i + 1].tpr, roc[i].tpr)
                  /\ AtMost(roc[i + 1].fpr, roc[i].fpr)

\* C23 witness: a sweep over two scored Predictions, one truly HOSTILE and
\* one not, both stored as HOSTILE; TPR and FPR are 1 up to threshold 80
\* and 0 from threshold 85 on.
C23_Witness ==
    /\ Swept
    /\ Cardinality(TrulyHostile) = 1
    /\ Cardinality(WithScore \ TrulyHostile) = 1
    /\ \A j \in WithScore : The(predictions)[j].pred_label = HOSTILE
    /\ SameNumber(The(roc_pr_data).roc_points[17].tpr, << 1, 1 >>)
    /\ SameNumber(The(roc_pr_data).roc_points[18].tpr, Zero)
    /\ SameNumber(The(roc_pr_data).roc_points[17].fpr, << 1, 1 >>)
    /\ SameNumber(The(roc_pr_data).roc_points[18].fpr, Zero)


(***************************************************************************)
(* Properties of the evaluator's main() over a logs directory              *)
(***************************************************************************)
\* main() has written metrics.json and the curve data.
Written == epc \in { "written", "read" }

\* The log files that count for the key, by their place in log_files.
FilesOf(key) == { i \in DOMAIN log_files : KeyOf(log_files[i]) = Some(key) }

\* The keys some log file counts for.
KeysOfFiles == { The(KeyOf(log_files[i])) : i \in { j \in DOMAIN log_files : ~ IsNone(KeyOf(log_files[j])) } }

\* The Predictions of all log files of the key, in the order of log_files.
RECURSIVE PredictionsUpTo(_, _)
PredictionsUpTo(key, n) ==
    IF n = 0 THEN <<>>
    ELSE PredictionsUpTo(key, n - 1)
         \o (IF n \in FilesOf(key) THEN PredictionsOfFile(log_files[n].lines) ELSE <<>>)
AllPredictions(key) == PredictionsUpTo(key, Len(log_files))

\* The entry of metrics.json under the key's string, None if there is none.
WrittenEntry(key) ==
    LET es == The(metricsFile).entries
        at == { i \in DOMAIN es : es[i][1] = EvaluatorKeyStr(key) }
    IN  IF at = {} THEN None ELSE Some(es[CHOOSE i \in at : TRUE][2].fields)

\* Two curve data hold the same points.
SameCurve(a, b) ==
    /\ Len(a.roc_points) = Len(b.roc_points)
    /\ Len(a.pr_points) = Len(b.pr_points)
    /\ \A i \in DOMAIN a.roc_points :
          /\ a.roc_points[i].threshold = b.roc_points[i].threshold
          /\ SameNumber(a.roc_points[i].tpr, b.roc_points[i].tpr)
          /\ SameNumber(a.roc_points[i].fpr, b.roc_points[i].fpr)
    /\ \A i \in DOMAIN a.pr_points :
          /\ a.pr_points[i].threshold = b.pr_points[i].threshold
          /\ SameNumber(a.pr_points[i].precision, b.pr_points[i].precision)
          /\ SameNumber(a.pr_points[i].recall, b.pr_points[i].recall)

\* C24 (as claimed): for every (scenario, mode) key the metrics reported for
\* the key are computed over the Predictions of all log files of the key,
\* and the ROC/PR curve data saved for the key are computed over the same
\* Predictions, for any number of log files contributing to the key.
C24_CurvesOverSamePredictions ==
    Written =>
        \A key \in KeysOfFiles :
            AllPredictions(key) # <<>> =>
                /\ WrittenEntry(key) = Some(ComputeMetrics(AllPredictions(key)))
                /\ key \in DOMAIN rocPrFiles
                /\ SameCurve(rocPrFiles[key], ComputeRocPrData(AllPredictions(key), HOSTILE))


\* No log file of the key has a drone with a recognized spawn label.
NoLabeledDrone(key) ==
    \A i \in FilesOf(key) :
        DOMAIN ExtractDroneLabels(EventsOf(LoadLogEvents(log_files[i].lines)), <<>>) = {}

\* C21 (as claimed): for a (scenario, mode) log set without labeled drones
\* the evaluator yields a metrics object with all rates at 0 and a marker
\* that no predictions existed (here: total_predictions is 0), which the
\* caller can tell from a rate of 0 computed over data.
C21_NoDataMarker ==
    Written =>
        \A key \in KeysOfFiles :
            NoLabeledDrone(key) =>
                /\ ~ IsNone(WrittenEntry(key))
                /\ The(WrittenEntry(key)).total_predictions = 0
                /\ \A rate \in { "accuracy", "FP_rate", "FN_rate", "civil_fp_rate" } :
                      The(WrittenEntry(key))[rate][1] = 0

\* The events of the lines of a file that are well-formed event records.
WellFormedEvents(lines) ==
    LET kept == SelectSeq(lines, LAMBDA l : l.json = "object")
    IN  LogFile([ i \in DOMAIN kept |-> The(kept[i].event) ])

\* The number of Predictions the well-formed lines of the key's files give.
RECURSIVE WellFormedCount(_, _)
WellFormedCount(key, n) ==
    IF n = 0 THEN 0
    ELSE WellFormedCount(key, n - 1)
         + (IF n \in FilesOf(key)
            THEN Len(ExtractPredictionsFromLog(WellFormedEvents(log_files[n].lines)))
            ELSE 0)

\* C22 (as claimed): a line that is not a well-formed event record
\* (unparsable JSON, or JSON that is not an object) never aborts the
\* processing, and the well-formed lines before and after it are all
\* processed: the metrics of a key count the Predictions of all well-formed
\* lines of its files.
C22_MalformedLinesSkipped ==
    /\ epc # "raised"
    /\ Written =>
          \A key \in KeysOfFiles :
              WellFormedCount(key, Len(log_files)) > 0 =>
                  /\ ~ IsNone(WrittenEntry(key))
                  /\ The(WrittenEntry(key)).total_predictions
                        = WellFormedCount(key, Len(log_files))

\* run_analysis has read the artifact back.
ReadBack == epc = "read"

\* C27 (as claimed): every (scenario, mode) key the evaluator wrote to the
\* metrics artifact as scenario_mode is mapped back by
\* parse_metrics_from_report to the same (scenario, mode) tuple with its own
\* metrics, and no two written keys are mapped to the same tuple.
C27_KeyRoundTrip ==
    ReadBack =>
        /\ \A i \in DOMAIN results :
              LET key == results[i].key
              IN  /\ Len(key[2]) = 1
                  /\ << key[1], key[2][1] >> \in DOMAIN metrics
                  /\ metrics[<< key[1], key[2][1] >>].fields = The(WrittenEntry(key))
        /\ Cardinality(DOMAIN metrics) = Len(results)

(***************************************************************************)
(* Properties of run_evaluation_mode                                       *)
(***************************************************************************)
HidingMode == mode \in { "baseline", "fusion_default" }

\* C28: run_evaluation_mode in baseline or fusion_default mode hides and
\* restores the tuned parameters: while the external evaluation runs,
\* runtime_params.json is absent, and when the call has returned, on any path,
\* runtime_params.json is what it was before the call (present with the same
\* content, or absent) and no backup file is left behind, whatever the
\* parameter file and the backup file were at the call.
C28_HidesAndRestores ==
    HidingMode =>
        /\ mpc = "evaluating" => IsNone(paramFile)
        /\ mpc = "returned" => /\ paramFile = paramBefore
                               /\ IsNone(backupFile)

(***************************************************************************)
(* Properties of C2WebSocketClient                                         *)
(***************************************************************************)
StopCalled == spc # "idle"

\* C29: C2WebSocketClient stop is final: once stop() has been called, the
\* connected flag is False and no connection has been opened since, in every
\* interleaving of stop() with run_with_reconnect, also when stop() runs while
\* a connect() of run_with_reconnect is waiting in websockets.connect.
C29_StopIsFinal ==
    StopCalled =>
        /\ ~ connected
        /\ nOpened = openedAtStop

(***************************************************************************)
(* Properties of AirSimBridgeServer                                        *)
(***************************************************************************)
\* C30: AirSimBridgeServer answers every message: for every message read on
\* a client connection, whatever it is, handle_client has sent exactly one
\* JSON-RPC 2.0 response carrying either a result or an error, and the
\* handler has not ended on a message, so that it serves those that follow.
C30_AnswersEveryMessage ==
    /\ Len(sent) = nRead
    /\ \A i \in 1..Len(sent) :
          /\ sent[i].jsonrpc = "2.0"
          /\ sent[i].member \in { "result", "error" }
    /\ hpc # "failed"

====
